---- MODULE Spec2Model ----
(***************************************************************************)
(* Model of the sync orchestrator (CreateSyncEntry, RunSync, runSyncJobs,  *)
(* runSyncJob) and of the repository cache (GetSha, CheckoutRepo, Cleanup) *)
(* of the server package.                                                  *)
(***************************************************************************)
EXTENDS Integers, Sequences, FiniteSets, TLC

\* ------------------------------------------------------------------ bounds
MaxSyncFailureCount == 2    \* s.config.System.MaxSyncFailureCount
DefaultScheduleMins == 1    \* s.config.System.DefaultScheduleMins
MaxTime == 2                \* the clock runs from 1 to MaxTime (minutes)

Ids == {1, 2}               \* sync entry ids, in the order GetSyncEntries lists them
NewIds == {1}               \* the ids CreateSyncEntry generates
Apps == {"a1", "a2"}        \* application paths
AppLists == {<<>>, <<"a1", "a2">>}   \* FilteredApps values
Commits == {"c1", "c2"}     \* commit ids of the apply-file repository
Frequencies == {0, 2}       \* ScheduleFrequency values given to CreateSyncEntry
ReloadOptions == {"none", "updated", "matched"}
\* The store or file system call that fails in a handler call, if any ("norow":
\* UpdateSyncStatus reports an id without a row as an error)
FailPoints == {"none", "begin", "list", "cache", "begin2", "update", "norow", "complete"}

VARIABLES
    store,            \* committed sync table: id -> SyncEntry, for the ids that exist
    apps,             \* committed app table: the application paths that exist
    head,             \* head commit of the apply-file repository
    now,              \* the wall clock, in minutes
    runnerPc,         \* syncRunner: "running" | "stopped"
    fails,            \* history: per id, consecutive failed runs by the scheduler
    last,             \* observation: the last handler call and what it did
    loop,             \* runSyncJobs: the loaded entry list and the position in it
    cache,            \* RepoCache.cache: Repo key -> CacheDir
    shaCache,         \* RepoCache.shaCache: Repo key -> commit hash
    rootDir,          \* RepoCache.rootDir ("" after Cleanup)
    disk,             \* the directories that exist on disk
    remote,           \* branch heads of the remote repository
    calls,            \* history: per key, what GetSha / CheckoutRepo calls did
    ret,              \* observation: the last RepoCache call and its return
    ticker,           \* s.syncTimer.C: the ticks waiting in the channel (0 or 1)
    ticks,            \* the calls of runSyncJobs in progress: list, position, run
    buildLockChannel, \* the channel of the build lock: nil, or capacity and content
    builds,           \* per caller of BuildImage: its position, timer and context
    devs              \* per dev-mode CheckoutRepo call: its position and target path

syncVars == <<store, apps, head, now, runnerPc, fails, last, loop>>
repoVars == <<cache, shaCache, rootDir, disk, remote, calls, ret>>
schedVars == <<ticker, ticks>>
buildVars == <<buildLockChannel, builds>>
devVars == <<devs>>
otherVars == <<ticker, ticks, buildLockChannel, builds, devs>>
vars == <<store, apps, head, now, runnerPc, fails, last, loop,
          cache, shaCache, rootDir, disk, remote, calls, ret,
          ticker, ticks, buildLockChannel, builds, devs>>

\* The callers of BuildImage and the concurrent dev-mode checkouts
BuildProcs == {1, 2, 3}
DevProcs == {1, 2}

\* var buildLockChannel chan string: nil until the first call
NilChannel == [nil |-> TRUE, cap |-> 0, buf |-> <<>>]

\* A caller that is not in BuildImage; a checkout that has not started
NoBuild == [pc |-> "idle", timer |-> FALSE, done |-> FALSE]
NoDev == [pc |-> "idle", targetPath |-> <<>>]

\* No tick, no build and no dev-mode checkout is in progress
OthersIdle ==
    /\ ticker = 0
    /\ ticks = <<>>
    /\ buildLockChannel = NilChannel
    /\ builds = [p \in BuildProcs |-> NoBuild]
    /\ devs = [p \in DevProcs |-> NoDev]

Range(s) == {s[i] : i \in 1..Len(s)}
Min(a, b) == IF a < b THEN a ELSE b

\* ------------------------------------------------------------ data model
\* types.AppApplyResponse: the fields runSyncJob reads or writes
ZeroApplyResponse ==
    [DryRun |-> FALSE, CommitId |-> "", SkippedApply |-> FALSE,
     FilteredApps |-> <<>>, ReloadResults |-> <<>>]

\* types.SyncJobStatus of an entry that has never been run (Go zero value)
ZeroStatus ==
    [LastExecutionTime |-> 0, State |-> "", CommitId |-> "", FailureCount |-> 0,
     Error |-> "", ApplyResponse |-> ZeroApplyResponse]

IsZero(t) == t = 0

\* ------------------------------------------------- metadata store (transactions)
\* A transaction sees the committed tables as of its start plus its own writes;
\* Commit publishes its view, Rollback discards it.
NoTx == [nil |-> TRUE, open |-> FALSE, sync |-> <<>>, apps |-> {}]

Db == [sync |-> store, apps |-> apps]

BeginTransaction(db) == [nil |-> FALSE, open |-> TRUE, sync |-> db.sync, apps |-> db.apps]

Rollback(tx) == [tx EXCEPT !.open = FALSE]

Commit(db, tx) == IF tx.open THEN [sync |-> tx.sync, apps |-> tx.apps] ELSE db

CreateSync(tx, entry) == [tx EXCEPT !.sync = (entry.Id :> entry) @@ @]

\* Mutant of UpdateSyncStatus: the update clears the scheduled flag as well
UpdateSyncStatusAndFlag(tx, id, status) ==
    IF id \in DOMAIN tx.sync
    THEN [tx EXCEPT !.sync[id].Status = status, !.sync[id].IsScheduled = FALSE]
    ELSE tx

\* UPDATE of the status column of the row with this id (no row: nothing is written)
UpdateSyncStatus(tx, id, status) ==
    IF id \in DOMAIN tx.sync THEN [tx EXCEPT !.sync[id].Status = status] ELSE tx

GetSyncEntries(tx) ==
    LET ids == DOMAIN tx.sync
        RECURSIVE list(_)
        list(k) == IF k > Cardinality(Ids) THEN <<>>
                   ELSE IF k \in ids THEN <<tx.sync[k]>> \o list(k + 1) ELSE list(k + 1)
    IN list(1)

\* CompleteTransaction: commits, unless the call is a dry run
CompleteTransaction(db, tx, dryRun) == IF dryRun THEN db ELSE Commit(db, tx)

\* ------------------------------------------------------ external collaborators
\* Apply: out = [err, apps] is the outcome the collaborator produces. It reports
\* SkippedApply when no drift is detected at lastRunCommitId, else it performs the
\* update in tx (the applications of out.apps are created) and returns the new
\* commit id. A failing Apply may have written part of its work to tx.
Apply(tx, dryRun, lastRunCommitId, out) ==
    IF out.err
    THEN [err |-> "apply error", info |-> ZeroApplyResponse, updatedApps |-> {},
          tx |-> [tx EXCEPT !.apps = @ \cup Range(out.apps)]]
    ELSE IF lastRunCommitId # "" /\ lastRunCommitId = head
    THEN [err |-> "", updatedApps |-> {}, tx |-> tx,
          info |-> [DryRun |-> dryRun, CommitId |-> head, SkippedApply |-> TRUE,
                    FilteredApps |-> out.apps, ReloadResults |-> <<>>]]
    ELSE [err |-> "", updatedApps |-> Range(out.apps),
          tx |-> [tx EXCEPT !.apps = @ \cup Range(out.apps)],
          info |-> [DryRun |-> dryRun, CommitId |-> head, SkippedApply |-> FALSE,
                    FilteredApps |-> out.apps, ReloadResults |-> <<>>]]

\* GetAppTx: the application record is found iff the path exists in tx's view
GetAppTx(tx, appPath) == appPath \in tx.apps

\* ------------------------------------------------------------------ runSyncJob
\* Mutant of FailureState: the entry is disabled one failure later
FailureStateLate(failureCount) ==
    IF failureCount > MaxSyncFailureCount THEN "Disabled" ELSE "Failing"

\* State after a failed run, by the new failure count
FailureState(failureCount) ==
    IF failureCount >= MaxSyncFailureCount THEN "Disabled" ELSE "Failing"

\* Mutant of ApplyStatus: a successful run keeps the failure count and the state
ApplyStatusNoReset(entry, a) ==
    IF a.err # ""
    THEN [LastExecutionTime |-> now, State |-> FailureState(entry.Status.FailureCount + 1),
          CommitId |-> "", FailureCount |-> entry.Status.FailureCount + 1,
          Error |-> a.err, ApplyResponse |-> ZeroApplyResponse]
    ELSE [LastExecutionTime |-> now,
          State |-> IF entry.Status.FailureCount = 0 THEN "Enabled"
                    ELSE FailureState(entry.Status.FailureCount),
          CommitId |-> a.info.CommitId, FailureCount |-> entry.Status.FailureCount,
          Error |-> "", ApplyResponse |-> ZeroApplyResponse]

\* Mutant of ApplyStatus: a successful run keeps the commit id of the entry
ApplyStatusKeepsCommit(entry, a) ==
    IF a.err # ""
    THEN [LastExecutionTime |-> now, State |-> FailureState(entry.Status.FailureCount + 1),
          CommitId |-> "", FailureCount |-> entry.Status.FailureCount + 1,
          Error |-> a.err, ApplyResponse |-> ZeroApplyResponse]
    ELSE [LastExecutionTime |-> now, State |-> "Enabled",
          CommitId |-> entry.Status.CommitId, FailureCount |-> 0,
          Error |-> "", ApplyResponse |-> ZeroApplyResponse]

\* The run's status after Apply returned
ApplyStatus(entry, a) ==
    IF a.err # ""
    THEN [LastExecutionTime |-> now, State |-> FailureState(entry.Status.FailureCount + 1),
          CommitId |-> "", FailureCount |-> entry.Status.FailureCount + 1,
          Error |-> a.err, ApplyResponse |-> ZeroApplyResponse]
    ELSE [LastExecutionTime |-> now, State |-> "Enabled",
          CommitId |-> a.info.CommitId, FailureCount |-> 0,
          Error |-> "", ApplyResponse |-> ZeroApplyResponse]

\* Mutant of ApplyInfo: a failed Apply leaves an empty response
ApplyInfoEmpty(a, dryRun, lastRunApps) ==
    IF a.err # ""
    THEN [ZeroApplyResponse EXCEPT !.DryRun = dryRun]
    ELSE a.info

\* applyInfo after Apply returned
ApplyInfo(a, dryRun, lastRunApps) ==
    IF a.err # ""
    THEN [ZeroApplyResponse EXCEPT !.DryRun = dryRun, !.FilteredApps = lastRunApps]
    ELSE a.info

\* Mutant of SkipOptimization: the reload policy of the entry is not looked at
SkipOptimizationAnyPolicy(entry, a) ==
    a.err = "" /\ a.info.SkippedApply

\* Whether the skip-optimization is entered
SkipOptimization(entry, a) ==
    a.err = "" /\ a.info.SkippedApply /\ entry.Metadata.Reload = "matched"

\* The application lookups of the skip-optimization: in list order, up to and
\* including the first application that is missing
RECURSIVE LookupApps(_, _)
LookupApps(tx, lastRunApps) ==
    IF lastRunApps = <<>> THEN <<>>
    ELSE IF ~GetAppTx(tx, Head(lastRunApps))
         THEN <<[app |-> Head(lastRunApps), found |-> FALSE]>>
         ELSE <<[app |-> Head(lastRunApps), found |-> TRUE]>>
              \o LookupApps(tx, Tail(lastRunApps))

\* Mutant of AppMissing: a missing application is not noticed
AppMissingIgnored(lookups) == FALSE

\* Whether an application of the last run could not be loaded
AppMissing(lookups) == \E i \in 1..Len(lookups) : ~lookups[i].found

\* Mutant of ReloadCalls: the reloads go on after one failed
ReloadCallsAll(lastRunApps, failAt) == lastRunApps

\* The ReloadApp calls of the skip-optimization: in list order, up to and including
\* the first one that fails (failAt = 0: none fails)
ReloadCalls(lastRunApps, failAt) ==
    IF failAt \in 1..Len(lastRunApps) THEN SubSeq(lastRunApps, 1, failAt) ELSE lastRunApps

ReloadFailed(lastRunApps, failAt) == failAt \in 1..Len(lastRunApps)

\* The status after the reloads
ReloadStatus(entry, status, reloadFailed) ==
    IF reloadFailed
    THEN [status EXCEPT !.Error = "reload error",
                        !.FailureCount = entry.Status.FailureCount + 1,
                        !.State = FailureState(entry.Status.FailureCount + 1)]
    ELSE status

\* applyInfo after the reloads: the accumulated results are stored when a reload failed
ReloadInfo(applyInfo, lastRunApps, failAt) ==
    IF ReloadFailed(lastRunApps, failAt)
    THEN [applyInfo EXCEPT !.ReloadResults = SubSeq(lastRunApps, 1, failAt - 1)]
    ELSE applyInfo

LastRunCommitIdNever(entry, checkCommitHash) == ""

\* Mutant of LastRunCommitId: the inner call compares with the last commit too
LastRunCommitIdAlways(entry, checkCommitHash) == entry.Status.CommitId

\* The commit id Apply compares the head of the repository with
LastRunCommitId(entry, checkCommitHash) ==
    IF checkCommitHash THEN entry.Status.CommitId ELSE ""

EmptyTrace == [applies |-> <<>>, lookups |-> <<>>, reloads |-> <<>>, reloadErr |-> FALSE]

\* return nil, nil, err
ErrReturn(err, db, callerTx, tr, wrote) ==
    [err |-> err, hasStatus |-> FALSE, status |-> ZeroStatus, updatedApps |-> {},
     db |-> db, tx |-> callerTx, applies |-> tr.applies, lookups |-> tr.lookups,
     reloads |-> tr.reloads, reloadErr |-> tr.reloadErr, wrote |-> wrote,
     completed |-> FALSE, cacheNew |-> 0, cacheCleanups |-> 0, suppliedCleanups |-> 0]

\* return &status, updatedApps, nil
OkReturn(status, updatedApps, db, callerTx, tr, completed) ==
    [err |-> "", hasStatus |-> TRUE, status |-> status, updatedApps |-> updatedApps,
     db |-> db, tx |-> callerTx, applies |-> tr.applies, lookups |-> tr.lookups,
     reloads |-> tr.reloads, reloadErr |-> tr.reloadErr, wrote |-> TRUE,
     completed |-> completed, cacheNew |-> 0, cacheCleanups |-> 0, suppliedCleanups |-> 0]

\* The transaction the status is written in: after a failed run the run's
\* transaction is rolled back and a new one is begun
StatusTx(db, tx, failed) == IF failed THEN BeginTransaction(db) ELSE tx

\* Mutant of CallerTx: a failed run leaves the caller's transaction as it is
CallerTxKept(inputTx, tx, failed) ==
    IF inputTx.nil THEN NoTx ELSE tx

\* The caller's transaction when the call returns
CallerTx(inputTx, tx, failed) ==
    IF inputTx.nil THEN NoTx ELSE IF failed THEN Rollback(tx) ELSE tx

\* Mutant of CompletesTx: the transaction of the caller is completed as well
CompletesTxOfCaller(inputTx, status) == status.Error = ""

\* Whether runSyncJob completes the transaction it wrote the status in
CompletesTx(inputTx, status) == status.Error = "" /\ inputTx.nil

\* The end of runSyncJob: rollback after a failure, status write, completion.
\* Every transaction runSyncJob began and did not complete is rolled back by
\* its deferred Rollback, so db changes only through CompleteTransaction.
Finish(db, inputTx, tx, entry, dryRun, status0, applyInfo, updatedApps0, in, tr) ==
    LET failed == status0.Error # ""
        txA == StatusTx(db, tx, failed)
        updatedApps == IF failed THEN {} ELSE updatedApps0
        status == [status0 EXCEPT !.ApplyResponse = applyInfo]
        noRow == entry.Id \notin DOMAIN txA.sync
        txB == UpdateSyncStatus(txA, entry.Id, status)
    IN  IF failed /\ in.fail = "begin2"
        THEN ErrReturn("begin error", db, CallerTx(inputTx, tx, TRUE), tr, FALSE)
        ELSE IF in.fail = "update" \/ (noRow /\ in.fail = "norow")
        THEN ErrReturn("update error", db, CallerTx(inputTx, tx, failed), tr, FALSE)
        ELSE IF CompletesTx(inputTx, status)
        THEN IF in.fail = "complete"
             THEN ErrReturn("complete error", db, NoTx, tr, TRUE)
             ELSE OkReturn(status, updatedApps,
                           CompleteTransaction(db, txB, dryRun), NoTx, tr, TRUE)
        ELSE OkReturn(status, updatedApps, db,
                      CallerTx(inputTx, IF failed THEN tx ELSE txB, failed), tr, FALSE)

\* Mutant of CleansUp: the Cleanup is deferred for a supplied cache as well
CleansUpAlways(hasRepoCache) == TRUE

\* Whether runSyncJob defers the Cleanup of the RepoCache: where it creates it
CleansUp(hasRepoCache) == ~hasRepoCache

\* The RepoCache events of a call that got past the creation of the cache:
\* NewRepoCache when no cache was supplied, and the deferred Cleanup on return
DeferCleanup(hasRepoCache, r) ==
    [r EXCEPT !.cacheNew = @ + (IF hasRepoCache THEN 0 ELSE 1),
              !.cacheCleanups = @ + (IF CleansUp(hasRepoCache) /\ ~hasRepoCache
                                     THEN 1 ELSE 0),
              !.suppliedCleanups = @ + (IF CleansUp(hasRepoCache) /\ hasRepoCache
                                        THEN 1 ELSE 0)]

RECURSIVE runSyncJob(_, _, _, _, _, _, _)
runSyncJob(db, inputTx, entry, dryRun, checkCommitHash, hasRepoCache, in) ==
    IF inputTx.nil /\ in.fail = "begin"
    THEN ErrReturn("begin error", db, NoTx, EmptyTrace, FALSE)
    ELSE IF ~hasRepoCache /\ in.fail = "cache"
    THEN ErrReturn("cache error", db, inputTx, EmptyTrace, FALSE)
    ELSE DeferCleanup(hasRepoCache,
    LET tx == IF inputTx.nil THEN BeginTransaction(db) ELSE inputTx
        lastRunApps == entry.Status.ApplyResponse.FilteredApps
        lastRunCommitId == LastRunCommitId(entry, checkCommitHash)
        a == Apply(tx, dryRun, lastRunCommitId,
                   IF checkCommitHash THEN in.apply1 ELSE in.apply2)
        call == [checkCommitHash |-> checkCommitHash, lastRunCommitId |-> lastRunCommitId,
                 err |-> a.err # "", skipped |-> a.info.SkippedApply,
                 commitId |-> a.info.CommitId, updated |-> a.updatedApps]
        status == ApplyStatus(entry, a)
        applyInfo0 == ApplyInfo(a, dryRun, lastRunApps)
        tr0 == [EmptyTrace EXCEPT !.applies = <<call>>]
    IN  IF ~SkipOptimization(entry, a)
        THEN Finish(db, inputTx, a.tx, entry, dryRun, status, applyInfo0, a.updatedApps, in, tr0)
        ELSE
        LET applyInfo == IF Len(applyInfo0.FilteredApps) = 0
                         THEN [applyInfo0 EXCEPT !.FilteredApps = lastRunApps]
                         ELSE applyInfo0
            lookups == LookupApps(a.tx, lastRunApps)
            tr1 == [tr0 EXCEPT !.lookups = lookups]
        IN  IF AppMissing(lookups)
            THEN IF ~checkCommitHash
                 THEN ErrReturn("Unexpected error, sync rerun with no commit hash",
                                db, IF inputTx.nil THEN NoTx ELSE a.tx, tr1, FALSE)
                 ELSE LET r == runSyncJob(db, IF inputTx.nil THEN NoTx ELSE a.tx, entry,
                                          dryRun, FALSE, TRUE, in)
                      IN  [r EXCEPT !.applies = tr1.applies \o @,
                                    !.lookups = tr1.lookups \o @]
            ELSE Finish(db, inputTx, a.tx, entry, dryRun,
                        ReloadStatus(entry, status, ReloadFailed(lastRunApps, in.reloadFailAt)),
                        ReloadInfo(applyInfo, lastRunApps, in.reloadFailAt),
                        a.updatedApps, in,
                        [tr1 EXCEPT !.reloads = ReloadCalls(lastRunApps, in.reloadFailAt),
                                    !.reloadErr = ReloadFailed(lastRunApps, in.reloadFailAt)]))

\* ---------------------------------------------------------------- the inputs
\* Outcomes of the Apply collaborator
ApplyOuts ==
    {[err |-> TRUE, apps |-> l] : l \in AppLists}
    \cup {[err |-> FALSE, apps |-> l] : l \in AppLists}

DefaultOut == [err |-> FALSE, apps |-> <<>>]

\* The outcomes that can make a difference in a run of entry: the second Apply
\* outcome is drawn only when the first leads to the fallback, the failing reload
\* only when the reloads are reached
RunInputs(tx, entry, checks) ==
    UNION {
      LET a == Apply(tx, FALSE, entry.Status.CommitId, a1)
          lastRunApps == entry.Status.ApplyResponse.FilteredApps
          skip == SkipOptimization(entry, a)
          missing == skip /\ AppMissing(LookupApps(a.tx, lastRunApps))
      IN  {[apply1 |-> a1, apply2 |-> a2, reloadFailAt |-> rf, fail |-> f] :
              a2 \in IF missing THEN ApplyOuts ELSE {DefaultOut},
              rf \in IF skip /\ ~missing THEN 0..Len(lastRunApps) ELSE {0},
              f \in checks}
      : a1 \in ApplyOuts }

\* What a call of runSyncJob did, for the properties: the entry it was given, the
\* applications that existed, the observable part of its return, whether the
\* transaction of the caller is open at the return and the applications in it
Observed(entry, db, r) ==
    [entry |-> entry, ran |-> TRUE, apps0 |-> db.apps,
     err |-> r.err, hasStatus |-> r.hasStatus, status |-> r.status,
     updatedApps |-> r.updatedApps, applies |-> r.applies, lookups |-> r.lookups,
     reloads |-> r.reloads, reloadErr |-> r.reloadErr, wrote |-> r.wrote,
     completed |-> r.completed, txOpen |-> r.tx.open, txApps |-> r.tx.apps,
     cacheNew |-> r.cacheNew, cacheCleanups |-> r.cacheCleanups,
     suppliedCleanups |-> r.suppliedCleanups]

\* An entry of the tick that was skipped
Skipped(entry, db) ==
    [Observed(entry, db, ErrReturn("", db, NoTx, EmptyTrace, FALSE)) EXCEPT !.ran = FALSE]

\* ------------------------------------------------------------------- RunSync
\* Mutant of RunSync: an entry that reached the failure limit is not run
RunSyncGated(id, dryRun, in) ==
    LET tx == BeginTransaction(Db)
        none == [db |-> Db, err |-> "", steps |-> <<>>]
    IN  IF in.fail = "begin" THEN [none EXCEPT !.err = "begin error"]
        ELSE IF id \notin DOMAIN tx.sync THEN [none EXCEPT !.err = "not found"]
        ELSE IF tx.sync[id].Status.FailureCount >= MaxSyncFailureCount
        THEN [none EXCEPT !.err = "disabled"]
        ELSE
        LET syncEntry == tx.sync[id]
            r == runSyncJob(Db, tx, syncEntry, dryRun, TRUE, FALSE, in)
            ran == [none EXCEPT !.steps = <<Observed(syncEntry, Db, r)>>]
        IN  IF r.err # "" THEN [ran EXCEPT !.err = r.err]
            ELSE IF r.status.Error # "" THEN [ran EXCEPT !.err = r.status.Error]
            ELSE IF in.fail = "complete" THEN [ran EXCEPT !.err = "complete error"]
            ELSE [ran EXCEPT !.db = CompleteTransaction(r.db, r.tx, dryRun)]

RunSync(id, dryRun, in) ==
    LET tx == BeginTransaction(Db)
        none == [db |-> Db, err |-> "", steps |-> <<>>]
    IN  IF in.fail = "begin" THEN [none EXCEPT !.err = "begin error"]
        ELSE IF id \notin DOMAIN tx.sync THEN [none EXCEPT !.err = "not found"]
        ELSE
        LET syncEntry == tx.sync[id]
            r == runSyncJob(Db, tx, syncEntry, dryRun, TRUE, FALSE, in)
            ran == [none EXCEPT !.steps = <<Observed(syncEntry, Db, r)>>]
        IN  IF r.err # "" THEN [ran EXCEPT !.err = r.err]
            ELSE IF r.status.Error # "" THEN [ran EXCEPT !.err = r.status.Error]
            ELSE IF in.fail = "complete" THEN [ran EXCEPT !.err = "complete error"]
            ELSE [ran EXCEPT !.db = CompleteTransaction(r.db, r.tx, dryRun)]

\* ----------------------------------------------------------- CreateSyncEntry
\* The id ksuid generates: one no entry has
FreshIds == {i \in NewIds : i \notin DOMAIN store}

\* Mutant of NewSyncEntry: the default frequency replaces the given one, and
\* every entry gets a secret
NewSyncEntryDefaults(id, scheduled, sync) ==
    [Id |-> id, Path |-> "p", IsScheduled |-> scheduled,
     Metadata |-> [Reload |-> sync.Reload,
                   ScheduleFrequency |-> IF scheduled THEN DefaultScheduleMins
                                         ELSE sync.ScheduleFrequency,
                   WebhookSecret |-> "cl_tkn"],
     Status |-> ZeroStatus]

\* The entry CreateSyncEntry builds from its arguments
NewSyncEntry(id, scheduled, sync) ==
    [Id |-> id, Path |-> "p", IsScheduled |-> scheduled,
     Metadata |-> [Reload |-> sync.Reload,
                   ScheduleFrequency |-> IF scheduled /\ sync.ScheduleFrequency <= 0
                                         THEN DefaultScheduleMins
                                         ELSE sync.ScheduleFrequency,
                   WebhookSecret |-> IF ~scheduled THEN "cl_tkn" ELSE sync.WebhookSecret],
     Status |-> ZeroStatus]

\* What CreateSyncEntry does after the initial run returned
CreateOutcome(r, dryRun, in, ran) ==
    IF r.err # "" THEN [ran EXCEPT !.err = r.err]
    ELSE IF r.status.Error # "" THEN [ran EXCEPT !.err = r.status.Error]
    ELSE IF in.fail = "complete" THEN [ran EXCEPT !.err = "complete error"]
    ELSE [ran EXCEPT !.db = CompleteTransaction(r.db, r.tx, dryRun)]

\* Mutant of CreateSyncEntry: the new entry is committed before the initial run
CreateSyncEntryCommitFirst(id, scheduled, dryRun, sync, in) ==
    LET none == [db |-> Db, err |-> "", steps |-> <<>>]
    IN  IF in.fail = "begin" THEN [none EXCEPT !.err = "begin error"]
        ELSE
        LET syncEntry == NewSyncEntry(id, scheduled, sync)
            db1 == Commit(Db, CreateSync(BeginTransaction(Db), syncEntry))
            r == runSyncJob(db1, BeginTransaction(db1), syncEntry, dryRun, TRUE, FALSE, in)
        IN  CreateOutcome(r, dryRun, in,
                          [none EXCEPT !.db = db1, !.steps = <<Observed(syncEntry, Db, r)>>])

CreateSyncEntry(id, scheduled, dryRun, sync, in) ==
    LET tx == BeginTransaction(Db)
        none == [db |-> Db, err |-> "", steps |-> <<>>]
    IN  IF in.fail = "begin" THEN [none EXCEPT !.err = "begin error"]
        ELSE
        LET syncEntry == NewSyncEntry(id, scheduled, sync)
            r == runSyncJob(Db, CreateSync(tx, syncEntry), syncEntry, dryRun, TRUE, FALSE, in)
        IN  CreateOutcome(r, dryRun, in,
                          [none EXCEPT !.steps = <<Observed(syncEntry, Db, r)>>])

\* ----------------------------------------------------------- DeleteSyncEntry
DeleteSync(tx, id) == [tx EXCEPT !.sync = [i \in DOMAIN @ \ {id} |-> @[i]]]

\* No response: the handler returned nil
NoResp == [Id |-> 0, DryRun |-> FALSE]

\* types.SyncDeleteResponse
SyncDeleteResponse(id, dryRun) == [Id |-> id, DryRun |-> dryRun]

\* Mutant of DeleteSyncEntry: a dry run commits as well
DeleteSyncEntryCommitsDryRun(id, dryRun, fail) ==
    LET tx == BeginTransaction(Db)
        none == [db |-> Db, err |-> "", steps |-> <<>>, resp |-> NoResp]
        ret0 == SyncDeleteResponse(id, dryRun)
    IN  IF fail = "begin" THEN [none EXCEPT !.err = "begin error"]
        ELSE IF id \notin DOMAIN tx.sync /\ fail = "norow"
        THEN [none EXCEPT !.err = "not found"]
        ELSE IF fail = "complete" THEN [none EXCEPT !.err = "commit error"]
        ELSE [none EXCEPT !.db = Commit(Db, DeleteSync(tx, id)), !.resp = ret0]

DeleteSyncEntry(id, dryRun, fail) ==
    LET tx == BeginTransaction(Db)
        none == [db |-> Db, err |-> "", steps |-> <<>>, resp |-> NoResp]
        ret0 == SyncDeleteResponse(id, dryRun)
    IN  IF fail = "begin" THEN [none EXCEPT !.err = "begin error"]
        ELSE IF id \notin DOMAIN tx.sync /\ fail = "norow"
        THEN [none EXCEPT !.err = "not found"]
        ELSE IF dryRun THEN [none EXCEPT !.resp = ret0]
        ELSE IF fail = "complete" THEN [none EXCEPT !.err = "commit error"]
        ELSE [none EXCEPT !.db = Commit(Db, DeleteSync(tx, id)), !.resp = ret0]

\* ------------------------------------------------- syncRunner / runSyncJobs
\* Mutant of ShouldRun: an entry whose frequency has just elapsed is not yet run
ShouldRunOffByOne(entry) ==
    /\ ~(~entry.IsScheduled \/ entry.Metadata.ScheduleFrequency <= 0)
    /\ ~(/\ ~IsZero(entry.Status.LastExecutionTime)
         /\ entry.Status.LastExecutionTime + entry.Metadata.ScheduleFrequency >= now)
    /\ ~(entry.Status.FailureCount >= MaxSyncFailureCount)

\* Whether the loop of runSyncJobs runs the entry (none of its three skips applies)
ShouldRun(entry) ==
    /\ ~(~entry.IsScheduled \/ entry.Metadata.ScheduleFrequency <= 0)
    /\ ~(/\ ~IsZero(entry.Status.LastExecutionTime)
         /\ entry.Status.LastExecutionTime + entry.Metadata.ScheduleFrequency > now)
    /\ ~(entry.Status.FailureCount >= MaxSyncFailureCount)

\* The loop of runSyncJobs over the loaded entries: every way it can go, as the
\* committed tables it leaves and what it did with each entry. Each run has a
\* transaction of its own; an error of a run does not end the loop.
\* Mutant of TickRunTx: the runs of a tick get the transaction of the tick
TickRunTxShared(tx) == tx

\* The transaction runSyncJobs passes to a run: none (types.Transaction{})
TickRunTx(tx) == NoTx

\* Mutant of TickRunCache: the runs of a tick get no cache
TickRunCacheNone(hasRepoCache) == FALSE

\* The RepoCache runSyncJobs passes to a run: the one it created
TickRunCache(hasRepoCache) == hasRepoCache

RECURSIVE RunEntries(_, _)
RunEntries(db, entries) ==
    IF entries = <<>> THEN {[db |-> db, steps |-> <<>>]}
    ELSE LET entry == Head(entries)
         IN  IF ~ShouldRun(entry)
             THEN {[o EXCEPT !.steps = <<Skipped(entry, db)>> \o @] :
                      o \in RunEntries(db, Tail(entries))}
             ELSE UNION {
                    LET r == runSyncJob(db, TickRunTx(BeginTransaction(db)), entry, FALSE,
                                        TRUE, TickRunCache(TRUE), in)
                    IN  {[o EXCEPT !.steps = <<Observed(entry, db, r)>> \o @] :
                            o \in RunEntries(r.db, Tail(entries))}
                    : in \in RunInputs(BeginTransaction(db), entry,
                                       FailPoints \ {"list", "cache"}) }

syncRunnerKeepsRunning(pc, err) == pc

\* The loop of syncRunner after runSyncJobs returned: an error ends it
syncRunner(pc, err) == IF err # "" THEN "stopped" ELSE pc

\* ------------------------------------------------------------------ history
FailCap == MaxSyncFailureCount + 1

\* Consecutive failed runs of the entry by the scheduler loop, with no successful
\* run of the entry in between
CountRun(f, step, byScheduler) ==
    IF ~step.ran \/ ~step.hasStatus THEN f
    ELSE IF step.status.Error = "" THEN [f EXCEPT ![step.entry.Id] = 0]
    ELSE IF byScheduler THEN [f EXCEPT ![step.entry.Id] = Min(@ + 1, FailCap)]
    ELSE f

RECURSIVE CountRuns(_, _, _)
CountRuns(f, steps, byScheduler) ==
    IF steps = <<>> THEN f
    ELSE CountRuns(CountRun(f, Head(steps), byScheduler), Tail(steps), byScheduler)

\* The scheduled flag and the metadata CreateSyncEntry was called with
NoSyncArgs ==
    [scheduled |-> FALSE,
     sync |-> [Reload |-> "", ScheduleFrequency |-> 0, WebhookSecret |-> ""]]

\* What runSyncJobs did with its RepoCache in a step: NewRepoCache calls and
\* Cleanup calls
NoCaches == [new |-> 0, cleanups |-> 0]

\* runSyncJobs that returns before its loop: the cache is created after the
\* transaction was begun, and its deferred Cleanup runs when the listing fails
EarlyReturnCaches(fail) ==
    IF fail \in {"begin", "cache"} THEN NoCaches ELSE [new |-> 1, cleanups |-> 1]

\* The observation of a handler call
Called(op, id, dryRun, h) ==
    [op |-> op, id |-> id, dryRun |-> dryRun, err |-> h.err, steps |-> h.steps,
     resp |-> IF "resp" \in DOMAIN h THEN h.resp ELSE NoResp,
     args |-> IF "args" \in DOMAIN h THEN h.args ELSE NoSyncArgs,
     caches |-> IF "caches" \in DOMAIN h THEN h.caches ELSE NoCaches]

\* runSyncJobs is not in its loop
NoLoop == [entries |-> <<>>, idx |-> 0, steps |-> <<>>, cache |-> "none"]

\* No handler call is being observed
NoCall ==
    [op |-> "", id |-> 0, dryRun |-> FALSE, err |-> "", steps |-> <<>>, resp |-> NoResp,
     args |-> NoSyncArgs, caches |-> NoCaches]

\* --------------------------------------------------------------------- actions
\* A handler call is one step; what it did stays in last until Return, the step
\* in which its caller takes the result.
DoRunSync ==
    /\ last = NoCall
    /\ \E id \in Ids, dryRun \in BOOLEAN :
         \E in \in IF id \in DOMAIN store
                   THEN RunInputs(BeginTransaction(Db), store[id], FailPoints \ {"list"})
                   ELSE {[apply1 |-> DefaultOut, apply2 |-> DefaultOut,
                          reloadFailAt |-> 0, fail |-> f] : f \in {"none", "begin"}} :
           LET h == RunSync(id, dryRun, in)
           IN  /\ store' = h.db.sync
               /\ apps' = h.db.apps
               /\ fails' = CountRuns(fails, h.steps, FALSE)
               /\ last' = Called("RunSync", id, dryRun, h)
    /\ UNCHANGED <<head, now, runnerPc, loop>>
    /\ UNCHANGED repoVars
    /\ UNCHANGED otherVars

DoCreateSyncEntry ==
    /\ last = NoCall
    /\ \E id \in FreshIds, scheduled \in BOOLEAN, dryRun \in BOOLEAN,
          reload \in ReloadOptions, freq \in Frequencies :
         LET sync == [Reload |-> reload, ScheduleFrequency |-> freq, WebhookSecret |-> ""]
         IN  \E in \in RunInputs(BeginTransaction(Db), NewSyncEntry(id, scheduled, sync),
                                 FailPoints \ {"list"}) :
               LET h == CreateSyncEntry(id, scheduled, dryRun, sync, in)
               IN  /\ store' = h.db.sync
                   /\ apps' = h.db.apps
                   /\ fails' = IF id \in DOMAIN h.db.sync
                               THEN CountRuns(fails, h.steps, FALSE) ELSE fails
                   /\ last' = Called("CreateSyncEntry", id, dryRun,
                                     [err |-> h.err, steps |-> h.steps,
                                      args |-> [scheduled |-> scheduled, sync |-> sync]])
    /\ UNCHANGED <<head, now, runnerPc, loop>>
    /\ UNCHANGED repoVars
    /\ UNCHANGED otherVars

DoDeleteSyncEntry ==
    /\ last = NoCall
    /\ \E id \in Ids, dryRun \in BOOLEAN, fail \in {"none", "begin", "norow", "complete"} :
         LET h == DeleteSyncEntry(id, dryRun, fail)
         IN  /\ store' = h.db.sync
             /\ fails' = IF id \in DOMAIN h.db.sync THEN fails
                         ELSE [fails EXCEPT ![id] = 0]
             /\ last' = Called("DeleteSyncEntry", id, dryRun, h)
    /\ UNCHANGED <<apps, head, now, runnerPc, loop>>
    /\ UNCHANGED repoVars
    /\ UNCHANGED otherVars

\* A timer tick: syncRunner calls runSyncJobs (the transaction, the repo cache,
\* the entry list, the loop); an error of runSyncJobs ends the loop of syncRunner
Tick ==
    /\ last = NoCall
    /\ runnerPc = "running"
    /\ \E fail \in {"none", "begin", "cache", "list"} :
         IF fail # "none"
         THEN /\ runnerPc' = syncRunner(runnerPc, fail)
              /\ last' = Called("tick", 0, FALSE, [err |-> fail, steps |-> <<>>,
                                                   caches |-> EarlyReturnCaches(fail)])
              /\ UNCHANGED <<store, apps, fails>>
         ELSE \E o \in RunEntries(Db, GetSyncEntries(BeginTransaction(Db))) :
                /\ store' = o.db.sync
                /\ apps' = o.db.apps
                /\ fails' = CountRuns(fails, o.steps, TRUE)
                /\ last' = Called("tick", 0, FALSE,
                                  [err |-> "", steps |-> o.steps,
                                   caches |-> [new |-> 1, cleanups |-> 1]])
                /\ UNCHANGED runnerPc
    /\ UNCHANGED <<head, now, loop>>
    /\ UNCHANGED repoVars
    /\ UNCHANGED otherVars

\* Time passes
Advance ==
    /\ last = NoCall
    /\ now < MaxTime
    /\ now' = now + 1
    /\ UNCHANGED <<store, apps, head, runnerPc, fails, last, loop>>
    /\ UNCHANGED repoVars
    /\ UNCHANGED otherVars

\* A commit is pushed to the apply-file repository
Push ==
    /\ last = NoCall
    /\ \E c \in Commits \ {head} : head' = c
    /\ UNCHANGED <<store, apps, now, runnerPc, fails, last, loop>>
    /\ UNCHANGED repoVars
    /\ UNCHANGED otherVars

\* An application is deleted outside of the sync jobs
DeleteApp ==
    /\ last = NoCall
    /\ \E a \in apps : apps' = apps \ {a}
    /\ UNCHANGED <<store, head, now, runnerPc, fails, last, loop>>
    /\ UNCHANGED repoVars
    /\ UNCHANGED otherVars

\* The caller of the handler takes the result
Return ==
    /\ last # NoCall
    /\ last' = NoCall
    /\ UNCHANGED <<store, apps, head, now, runnerPc, fails, loop>>
    /\ UNCHANGED repoVars
    /\ UNCHANGED otherVars

\* ------------------------------------------------------------------------ Init
\* The statuses the entry in the store at start may have: never run, last run
\* succeeded, or failed failureCount times in a row
InitStatuses ==
    {ZeroStatus}
    \cup {[LastExecutionTime |-> 1, State |-> "Enabled", CommitId |-> "c1",
           FailureCount |-> 0, Error |-> "",
           ApplyResponse |-> [ZeroApplyResponse EXCEPT !.CommitId = "c1",
                                                       !.FilteredApps = <<"a1", "a2">>]]}
    \cup {[LastExecutionTime |-> 1, State |-> FailureState(n), CommitId |-> "",
           FailureCount |-> n, Error |-> "apply error",
           ApplyResponse |-> [ZeroApplyResponse EXCEPT !.FilteredApps = <<"a1", "a2">>]]
          : n \in 1..MaxSyncFailureCount}

RepoIdle ==
    /\ cache = <<>>
    /\ shaCache = <<>>
    /\ rootDir = ""
    /\ disk = {}
    /\ remote = <<>>
    /\ calls = <<>>
    /\ ret = <<>>

\* The store is persistent: at start it holds an entry written earlier
Init ==
    /\ \E scheduled \in BOOLEAN, reload \in ReloadOptions, status \in InitStatuses :
        store = 1 :> [NewSyncEntry(1, scheduled,
                        [Reload |-> reload, ScheduleFrequency |-> 0, WebhookSecret |-> ""])
                      EXCEPT !.Status = status]
    /\ apps = {"a1", "a2"}
    /\ head = "c1"
    /\ now = 1
    /\ runnerPc = "running"
    /\ fails = [i \in Ids |-> 0]
    /\ last = NoCall
    /\ loop = NoLoop
    /\ RepoIdle
    /\ OthersIdle

Next ==
    \/ DoRunSync
    \/ DoCreateSyncEntry
    \/ DoDeleteSyncEntry
    \/ Tick
    \/ Advance
    \/ Push
    \/ DeleteApp
    \/ Return

Spec == Init /\ [][Next]_vars

\* ===================================================== the loop of runSyncJobs
\* The tick of the scheduler step by step: the entry list is loaded once, then
\* each step of the loop handles one entry of the loaded list; calls of the
\* other handlers may come between two steps.

\* What the loop did with an entry: skipped it or ran it, and whether the run
\* returned an error or a status with an error
LoopStep(step) ==
    [id |-> step.entry.Id, ran |-> step.ran,
     failed |-> step.ran /\ (step.err # "" \/ (step.hasStatus /\ step.status.Error # ""))]

LoopAfterStopOnError(l, step) ==
    IF step.failed
    THEN [l EXCEPT !.idx = Len(l.entries) + 1, !.steps = Append(@, step)]
    ELSE [l EXCEPT !.idx = @ + 1, !.steps = Append(@, step)]

\* The loop after an entry: on to the next one, whatever the run returned
LoopAfter(l, step) == [l EXCEPT !.idx = @ + 1, !.steps = Append(@, step)]

\* The RepoCache of the tick after a run: torn down if the run cleaned it up
CacheAfter(c, step) == IF step.ran /\ step.suppliedCleanups > 0 THEN "closed" ELSE c

\* runSyncJobs up to the loop: the transaction, the repo cache, the entry list
LoopStart ==
    /\ last = NoCall
    /\ runnerPc = "running"
    /\ loop = NoLoop
    /\ \E fail \in {"none", "begin", "cache", "list"} :
         IF fail # "none"
         THEN /\ runnerPc' = syncRunner(runnerPc, fail)
              /\ last' = Called("tick", 0, FALSE, [err |-> fail, steps |-> <<>>,
                                                   caches |-> EarlyReturnCaches(fail)])
              /\ UNCHANGED loop
         ELSE /\ loop' = [entries |-> GetSyncEntries(BeginTransaction(Db)),
                          idx |-> 1, steps |-> <<>>, cache |-> "live"]
              /\ last' = Called("tick", 0, FALSE, [err |-> "", steps |-> <<>>,
                                                   caches |-> [new |-> 1, cleanups |-> 0]])
              /\ UNCHANGED runnerPc
    /\ UNCHANGED <<store, apps, head, now, fails>>
    /\ UNCHANGED repoVars
    /\ UNCHANGED otherVars

\* One iteration of the loop
LoopNext ==
    /\ last = NoCall
    /\ loop.idx \in 1..Len(loop.entries)
    /\ \E o \in RunEntries(Db, <<loop.entries[loop.idx]>>) :
         /\ store' = o.db.sync
         /\ apps' = o.db.apps
         /\ fails' = CountRuns(fails, o.steps, TRUE)
         /\ loop' = [LoopAfter(loop, LoopStep(o.steps[1]))
                     EXCEPT !.cache = CacheAfter(@, o.steps[1])]
         /\ last' = Called("tick", 0, FALSE, [err |-> "", steps |-> o.steps])
    /\ UNCHANGED <<head, now, runnerPc>>
    /\ UNCHANGED repoVars
    /\ UNCHANGED otherVars

\* runSyncJobs returns nil: the deferred Cleanup of its RepoCache runs
LoopEnd ==
    /\ last = NoCall
    /\ loop.idx = Len(loop.entries) + 1
    /\ loop' = NoLoop
    /\ last' = Called("tick", 0, FALSE, [err |-> "", steps |-> <<>>,
                                         caches |-> [new |-> 0, cleanups |-> 1]])
    /\ UNCHANGED <<store, apps, head, now, runnerPc, fails>>
    /\ UNCHANGED repoVars
    /\ UNCHANGED otherVars

\* Two scheduled entries written earlier, the first never run; no application yet
InitLoop ==
    /\ \E s1 \in {ZeroStatus}, s2 \in InitStatuses :
        store = [i \in Ids |->
                   [NewSyncEntry(i, TRUE, [Reload |-> "none", ScheduleFrequency |-> 0,
                                           WebhookSecret |-> ""])
                    EXCEPT !.Status = IF i = 1 THEN s1 ELSE s2]]
    /\ apps = {}
    /\ head = "c1"
    /\ now = MaxTime
    /\ runnerPc = "running"
    /\ fails = [i \in Ids |-> 0]
    /\ last = NoCall
    /\ loop = NoLoop
    /\ RepoIdle
    /\ OthersIdle

NextLoop ==
    \/ LoopStart
    \/ LoopNext
    \/ LoopEnd
    \/ DoDeleteSyncEntry
    \/ DoRunSync
    \/ Return

SpecLoop == InitLoop /\ [][NextLoop]_vars

\* ============================================================ repository cache
\* The cache of one RepoCache instance (cache, shaCache, rootDir), the
\* directories that exist (disk) and the branch heads of the remote repository
\* (remote).  calls is the history of the calls made so far, ret the result of
\* the call that has just returned.

\* ---- configuration and inputs
DefaultGitAuth == "k1"
GitAuthProfiles == {"k1"}
SourceUrls == {"u/sub", "bad"}
Branches == {"main", "gone"}
CommitArgs == {"", "h1"}
GitAuths == {"", "bad"}
Hashes == {"h1", "h2"}
GetShaFails == {"none", "auth", "list"}
CheckoutFails == {"none", "auth", "mkdir", "clone", "checkout", "head"}
\* The directories one instance may create in a behaviour
MaxClones == 2

\* cmp.Or: the first argument that is not the zero value
Or(a, b) == IF a # "" THEN a ELSE b

\* The credentials of a named profile; the empty name stands for no credentials
loadGitKey(gitAuth) ==
    IF gitAuth = "" \/ gitAuth \in GitAuthProfiles
    THEN [err |-> "", usingSSH |-> gitAuth # ""]
    ELSE [err |-> "unknown git auth", usingSSH |-> FALSE]

\* The clone URL (in the form the transport needs) and the folder inside the
\* repository that a source URL names
parseGitUrl(sourceUrl, usingSSH) ==
    IF sourceUrl = "bad"
    THEN [err |-> "invalid url", repo |-> "", folder |-> ""]
    ELSE [err |-> "", repo |-> IF usingSSH THEN "git@u" ELSE "https://u",
          folder |-> "sub"]

\* filepath.Base of the clone URL; a name is the sequence of its characters
Base(repo) == <<"u">>

Repo(url, branch, commit, auth) ==
    [url |-> url, branch |-> branch, commit |-> commit, auth |-> auth]

CacheDir(dir, commitMessage, hash) ==
    [dir |-> dir, commitMessage |-> commitMessage, hash |-> hash]

\* The message of a commit of the remote repository
CommitMessage(hash) == <<"message of", hash>>

NewRepoCache == [rootDir |-> "openrun_git_1", cache |-> <<>>, shaCache |-> <<>>]

\* ---- directories
\* A directory is named by its parent and its name; the names MkdirTemp makes
\* are the prefix and a part that no earlier name has
RootPath(root) == [parent |-> "", name |-> <<root>>]
TempPath(parent, prefix, n) == [parent |-> parent, name |-> <<prefix, n>>]
AppSrc == "app_src"

\* path.Join
Join(targetDir, name) == [parent |-> targetDir, name |-> name]

\* The decimal digits of a number, as %d prints it
RECURSIVE Itoa(_)
Itoa(n) ==
    LET digit(k) == <<"0", "1", "2", "3", "4", "5", "6", "7", "8", "9">>[k + 1]
    IN  IF n < 10 THEN <<digit(n)>> ELSE Itoa(n \div 10) \o <<digit(n % 10)>>

\* fmt.Sprintf("%s%d", repoName, count)
Sprintf(repoName, count) == repoName \o Itoa(count)

RECURSIVE ProbeUnused(_, _, _, _)
ProbeUnused(d, targetDir, repoName, count) ==
    LET unusedName == Sprintf(repoName, count)
    IN  IF Join(targetDir, unusedName) \notin d THEN Join(targetDir, unusedName)
        ELSE ProbeUnused(d, targetDir, repoName, count + 1)

\* Mutant of getUnusedRepoPath: the numbered names start at 3
getUnusedRepoPathFromThree(d, targetDir, repoName) ==
    IF Join(targetDir, repoName) \notin d
    THEN Join(targetDir, repoName)
    ELSE ProbeUnused(d, targetDir, repoName, 3)

getUnusedRepoPath(d, targetDir, repoName) ==
    IF Join(targetDir, repoName) \notin d
    THEN Join(targetDir, repoName)
    ELSE ProbeUnused(d, targetDir, repoName, 2)

\* ---- GetSha
createAuthMethod(gitAuth, fail) ==
    IF loadGitKey(gitAuth).err # "" THEN loadGitKey(gitAuth).err
    ELSE IF fail = "auth" THEN "invalid key"
    ELSE ""

\* remoteCall: remote.List was called; resolved: the listing had the branch
latestCommitSHA(rem, branch, fail) ==
    IF fail = "list"
    THEN [err |-> "could not list remote refs", sha |-> "", resolved |-> FALSE]
    ELSE IF branch \notin DOMAIN rem
    THEN [err |-> "branch not found", sha |-> "", resolved |-> FALSE]
    ELSE [err |-> "", sha |-> rem[branch], resolved |-> TRUE]

ShaMiss(key) ==
    [shaKey |-> key, err |-> "", sha |-> "", remoteCall |-> FALSE, resolved |-> FALSE]

ShaCacheMissAlways(sc, key) == FALSE

ShaCacheHit(sc, key) == key \in DOMAIN sc

\* Mutant of GetSha: a failed listing leaves an entry with an empty hash
GetShaCachesError(sc, rem, sourceUrl, branch, gitAuth0, fail) ==
    LET gitAuth == Or(gitAuth0, DefaultGitAuth)
        authEntry == loadGitKey(gitAuth)
        parsed == parseGitUrl(sourceUrl, authEntry.usingSSH)
        key == Repo(parsed.repo, branch, "", gitAuth)
        authErr == IF gitAuth # "" THEN createAuthMethod(gitAuth, fail) ELSE ""
        l == latestCommitSHA(rem, branch, fail)
        none == [ShaMiss(key) EXCEPT !.shaKey = <<>>]
    IN  IF authEntry.err # "" THEN [shaCache |-> sc, out |-> [none EXCEPT !.err = authEntry.err]]
        ELSE IF parsed.err # "" THEN [shaCache |-> sc, out |-> [none EXCEPT !.err = parsed.err]]
        ELSE IF ShaCacheHit(sc, key)
        THEN [shaCache |-> sc, out |-> [ShaMiss(key) EXCEPT !.sha = sc[key]]]
        ELSE IF authErr # "" THEN [shaCache |-> sc, out |-> [ShaMiss(key) EXCEPT !.err = authErr]]
        ELSE IF l.err # ""
        THEN [shaCache |-> (key :> "") @@ sc,
              out |-> [ShaMiss(key) EXCEPT !.err = l.err, !.remoteCall = TRUE]]
        ELSE [shaCache |-> (key :> l.sha) @@ sc,
              out |-> [ShaMiss(key) EXCEPT !.sha = l.sha, !.remoteCall = TRUE,
                                           !.resolved = TRUE]]

GetSha(sc, rem, sourceUrl, branch, gitAuth0, fail) ==
    LET gitAuth == Or(gitAuth0, DefaultGitAuth)
        authEntry == loadGitKey(gitAuth)
        parsed == parseGitUrl(sourceUrl, authEntry.usingSSH)
        key == Repo(parsed.repo, branch, "", gitAuth)
        authErr == IF gitAuth # "" THEN createAuthMethod(gitAuth, fail) ELSE ""
        l == latestCommitSHA(rem, branch, fail)
        none == [ShaMiss(key) EXCEPT !.shaKey = <<>>]
    IN  IF authEntry.err # "" THEN [shaCache |-> sc, out |-> [none EXCEPT !.err = authEntry.err]]
        ELSE IF parsed.err # "" THEN [shaCache |-> sc, out |-> [none EXCEPT !.err = parsed.err]]
        ELSE IF ShaCacheHit(sc, key)
        THEN [shaCache |-> sc, out |-> [ShaMiss(key) EXCEPT !.sha = sc[key]]]
        ELSE IF authErr # "" THEN [shaCache |-> sc, out |-> [ShaMiss(key) EXCEPT !.err = authErr]]
        ELSE IF l.err # ""
        THEN [shaCache |-> sc,
              out |-> [ShaMiss(key) EXCEPT !.err = l.err, !.remoteCall = TRUE]]
        ELSE [shaCache |-> (key :> l.sha) @@ sc,
              out |-> [ShaMiss(key) EXCEPT !.sha = l.sha, !.remoteCall = TRUE,
                                           !.resolved = TRUE]]

\* ---- CheckoutRepo
NoValue == <<"", "", "", "">>

CheckoutMiss ==
    [err |-> "", val |-> NoValue, mkdir |-> FALSE, cloned |-> FALSE,
     checkedOut |-> FALSE]

CacheMissAlways(c, repoKey) == FALSE

CacheHit(c, repoKey) == repoKey \in DOMAIN c

\* n: the part of the name of a new temporary directory that no earlier one has
CheckoutRepo(c, root, d, rem, n, sourceUrl, branch, commit, gitAuth0, isDev, fail) ==
    LET gitAuth == Or(gitAuth0, DefaultGitAuth)
        authEntry == loadGitKey(gitAuth)
        parsed == parseGitUrl(sourceUrl, authEntry.usingSSH)
        repoKey == Repo(parsed.repo, branch, commit, gitAuth)
        authErr == IF gitAuth # "" THEN createAuthMethod(gitAuth, fail) ELSE ""
        targetPath == IF isDev THEN getUnusedRepoPath(d, AppSrc, Base(parsed.repo))
                      ELSE TempPath(root, "repo_", n)
        made == d \cup {targetPath}
        cloneErr == fail = "clone" \/ (commit = "" /\ branch \notin DOMAIN rem)
        checkoutErr == fail = "checkout" \/ (commit # "" /\ commit \notin Hashes)
        hash == IF commit # "" THEN commit ELSE rem[branch]
        same == [cache |-> c, disk |-> d]
        after == [cache |-> c, disk |-> made]
        mk == [CheckoutMiss EXCEPT !.mkdir = TRUE]
        cl == [mk EXCEPT !.cloned = TRUE]
        co == [cl EXCEPT !.checkedOut = TRUE]
    IN  IF authEntry.err # "" THEN same @@ [CheckoutMiss EXCEPT !.err = authEntry.err]
        ELSE IF parsed.err # "" THEN same @@ [CheckoutMiss EXCEPT !.err = parsed.err]
        ELSE IF CacheHit(c, repoKey)
        THEN same @@ [CheckoutMiss EXCEPT
                 !.val = <<c[repoKey].dir, parsed.folder, c[repoKey].commitMessage,
                           c[repoKey].hash>>]
        ELSE IF authErr # "" THEN same @@ [CheckoutMiss EXCEPT !.err = authErr]
        ELSE IF fail = "mkdir" THEN same @@ [CheckoutMiss EXCEPT !.err = "mkdir error"]
        ELSE IF cloneErr
        THEN after @@ [cl EXCEPT !.err = "error checking out branch"]
        ELSE IF checkoutErr
        THEN after @@ [co EXCEPT !.err = "error checking out branch commit"]
        ELSE IF fail = "head" THEN after @@ [co EXCEPT !.err = "reference not found"]
        ELSE [cache |-> (repoKey :> CacheDir(targetPath, CommitMessage(hash), hash)) @@ c,
              disk |-> made]
             @@ [co EXCEPT !.val = <<targetPath, parsed.folder, CommitMessage(hash), hash>>]

\* ---- Cleanup
\* Mutant of RemoveAll: the dev checkouts are deleted as well
RemoveAllWithDev(d, root) ==
    {p \in d : p # RootPath(root) /\ p.parent # root /\ p.parent # AppSrc}

\* os.RemoveAll(rootDir): the directory and everything under it
RemoveAll(d, root) == {p \in d : p # RootPath(root) /\ p.parent # root}

Cleanup(root, d) ==
    IF root # "" THEN [rootDir |-> "", disk |-> RemoveAll(d, root)]
    ELSE [rootDir |-> root, disk |-> d]

\* ---- history and observation
NoArgs == <<>>

CheckoutArgs(sourceUrl, branch, commit, gitAuth, isDev) ==
    [sourceUrl |-> sourceUrl, branch |-> branch, commit |-> commit,
     gitAuth |-> gitAuth, isDev |-> isDev]

\* first: the value the first successful CheckoutRepo call with this source
\* URL, branch, commit and auth profile returned; lastClone: the arguments of the last call that cloned; dirs: the
\* directories made; resolved: per key of shaCache, the hash that the first
\* listing that had the branch gave, and the number of such listings (2 stands
\* for 2 or more)
NoCalls == [first |-> <<>>, lastClone |-> NoArgs, dirs |-> 0, resolved |-> <<>>]

Lookup(f, x, default) == IF x \in DOMAIN f THEN f[x] ELSE default

NoRet ==
    [op |-> "", args |-> NoArgs, err |-> "", val |-> <<>>, mkdir |-> FALSE,
     cloned |-> FALSE, checkedOut |-> FALSE, remoteCall |-> FALSE,
     first |-> <<>>, prevClone |-> NoArgs]

\* The arguments a call reads: after an unknown auth profile the call reads no
\* other argument, after a URL that does not parse none but the auth profile
ArgsRead(sourceUrl, branch, commit, gitAuth, isDev) ==
    /\ loadGitKey(Or(gitAuth, DefaultGitAuth)).err # "" => sourceUrl = "u/sub"
    /\ (\/ loadGitKey(Or(gitAuth, DefaultGitAuth)).err # ""
        \/ parseGitUrl(sourceUrl, FALSE).err # "")
          => (branch = "main" /\ commit = "" /\ ~isDev)

\* ---- actions
DoGetSha ==
    /\ ret = NoRet
    /\ \E sourceUrl \in SourceUrls, branch \in Branches, gitAuth \in GitAuths,
          fail \in GetShaFails :
        LET r == GetSha(shaCache, remote, sourceUrl, branch, gitAuth, fail)
            key == r.out.shaKey
            before == Lookup(calls.resolved, key, [sha |-> r.out.sha, count |-> 0])
        IN  /\ ArgsRead(sourceUrl, branch, "", gitAuth, FALSE)
            /\ shaCache' = r.shaCache
            /\ calls' = IF r.out.resolved
                        THEN [calls EXCEPT !.resolved =
                                (key :> [before EXCEPT !.count = Min(@ + 1, 2)]) @@ @]
                        ELSE calls
            /\ ret' = [NoRet EXCEPT !.op = "GetSha",
                         !.args = CheckoutArgs(sourceUrl, branch, "", gitAuth, FALSE),
                         !.err = r.out.err, !.val = <<r.out.sha>>,
                         !.remoteCall = r.out.remoteCall,
                         !.first = IF key \in DOMAIN calls.resolved
                                   THEN <<calls.resolved[key].sha>> ELSE <<>>]
    /\ UNCHANGED <<cache, rootDir, disk, remote>>
    /\ UNCHANGED syncVars
    /\ UNCHANGED otherVars

DoCheckoutRepo ==
    /\ ret = NoRet
    /\ \E sourceUrl \in SourceUrls, branch \in Branches, commit \in CommitArgs,
          gitAuth \in GitAuths, isDev \in BOOLEAN, fail \in CheckoutFails :
        LET a == CheckoutArgs(sourceUrl, branch, commit, gitAuth, isDev)
            k == <<sourceUrl, branch, commit, gitAuth>>
            r == CheckoutRepo(cache, rootDir, disk, remote, calls.dirs + 1,
                              sourceUrl, branch, commit, gitAuth, isDev, fail)
        IN  /\ ArgsRead(sourceUrl, branch, commit, gitAuth, isDev)
            /\ r.mkdir => calls.dirs < MaxClones
            /\ cache' = r.cache
            /\ disk' = r.disk
            /\ calls' = [calls EXCEPT
                  !.first = IF r.err = "" /\ k \notin DOMAIN @
                            THEN (k :> r.val) @@ @ ELSE @,
                  !.lastClone = IF r.cloned THEN a ELSE @,
                  !.dirs = IF r.mkdir THEN @ + 1 ELSE @]
            /\ ret' = [NoRet EXCEPT !.op = "CheckoutRepo", !.args = a,
                         !.err = r.err, !.val = r.val, !.mkdir = r.mkdir,
                         !.cloned = r.cloned, !.checkedOut = r.checkedOut,
                         !.remoteCall = r.cloned,
                         !.first = Lookup(calls.first, k, <<>>),
                         !.prevClone = calls.lastClone]
    /\ UNCHANGED <<shaCache, rootDir, remote>>
    /\ UNCHANGED syncVars
    /\ UNCHANGED otherVars

DoCleanup ==
    /\ ret = NoRet
    /\ rootDir' = Cleanup(rootDir, disk).rootDir
    /\ disk' = Cleanup(rootDir, disk).disk
    /\ ret' = [NoRet EXCEPT !.op = "Cleanup", !.val = <<rootDir>>]
    /\ UNCHANGED <<cache, shaCache, remote, calls>>
    /\ UNCHANGED syncVars
    /\ UNCHANGED otherVars

\* A commit is pushed to the branch of the remote repository
RemotePush ==
    /\ ret = NoRet
    /\ \E h \in Hashes \ {remote["main"]} : remote' = [remote EXCEPT !["main"] = h]
    /\ UNCHANGED <<cache, shaCache, rootDir, disk, calls, ret>>
    /\ UNCHANGED syncVars
    /\ UNCHANGED otherVars

\* The caller takes the result
RepoReturn ==
    /\ ret # NoRet
    /\ ret' = NoRet
    /\ UNCHANGED <<cache, shaCache, rootDir, disk, remote, calls>>
    /\ UNCHANGED syncVars
    /\ UNCHANGED otherVars

SyncIdle ==
    /\ store = <<>>
    /\ apps = {}
    /\ head = "c1"
    /\ now = 1
    /\ runnerPc = "stopped"
    /\ fails = [i \in Ids |-> 0]
    /\ last = NoCall
    /\ loop = NoLoop

\* A new instance
InitRepo ==
    /\ SyncIdle
    /\ cache = NewRepoCache.cache
    /\ shaCache = NewRepoCache.shaCache
    /\ rootDir = NewRepoCache.rootDir
    /\ disk = {RootPath(NewRepoCache.rootDir)}
    /\ remote = "main" :> "h1"
    /\ calls = NoCalls
    /\ ret = NoRet
    /\ OthersIdle

NextRepo ==
    \/ DoGetSha
    \/ DoCheckoutRepo
    \/ DoCleanup
    \/ RemotePush
    \/ RepoReturn

SpecRepo == InitRepo /\ [][NextRepo]_vars

\* ============================================================ getUnusedRepoPath
\* The function on its own: the directory of the dev checkouts holds any of the
\* names below, and the function is called for a repository name.
MaxProbe == 10

RepoNames == {<<"u">>, <<"u", "1">>}

\* The names that may exist: each repository name, bare and numbered
ProbeDirs ==
    {Join(AppSrc, repoName) : repoName \in RepoNames}
    \cup {Join(AppSrc, Sprintf(<<"u">>, n)) : n \in 2..MaxProbe}
    \cup {Join(AppSrc, Sprintf(<<"u", "1">>, n)) : n \in 2..3}

DoGetUnusedRepoPath ==
    /\ ret = NoRet
    /\ \E repoName \in RepoNames :
         ret' = [NoRet EXCEPT !.op = "getUnusedRepoPath", !.args = <<AppSrc, repoName>>,
                              !.val = <<getUnusedRepoPath(disk, AppSrc, repoName)>>]
    /\ UNCHANGED <<cache, shaCache, rootDir, disk, remote, calls>>
    /\ UNCHANGED syncVars
    /\ UNCHANGED otherVars

InitPath ==
    /\ SyncIdle
    /\ cache = NewRepoCache.cache
    /\ shaCache = NewRepoCache.shaCache
    /\ rootDir = NewRepoCache.rootDir
    /\ disk \in SUBSET ProbeDirs
    /\ remote = "main" :> "h1"
    /\ calls = NoCalls
    /\ ret = NoRet
    /\ OthersIdle

NextPath ==
    \/ DoGetUnusedRepoPath
    \/ RepoReturn

SpecPath == InitPath /\ [][NextPath]_vars

\* ============================================================ the scheduler loop
\* syncRunner and the timer: the timer puts a tick into the channel of the
\* ticker at every interval (the channel holds one tick, a tick that finds it
\* full is dropped); syncRunner takes a tick, calls runSyncJobs and takes the
\* next tick when runSyncJobs has returned. A run of an entry takes time: it
\* starts in one step and returns in another.

\* Mutant of CanReceive: a tick is taken while runSyncJobs is in progress
CanReceiveAlways(t) == TRUE

\* Whether syncRunner is at the receive of its loop: no call of runSyncJobs that
\* it made is in progress
CanReceive(t) == t = <<>>

\* The timer interval elapses
TimerFire ==
    /\ now < MaxTime
    /\ now' = now + 1
    /\ ticker' = 1
    /\ UNCHANGED <<store, apps, head, runnerPc, fails, last, loop, ticks>>
    /\ UNCHANGED repoVars
    /\ UNCHANGED buildVars
    /\ UNCHANGED devVars

\* syncRunner takes a tick and calls runSyncJobs, which loads the entry list
TickStart ==
    /\ runnerPc = "running"
    /\ ticker = 1
    /\ CanReceive(ticks)
    /\ ticker' = 0
    /\ \E fail \in {"none", "list"} :
         IF fail # "none"
         THEN /\ runnerPc' = syncRunner(runnerPc, fail)
              /\ UNCHANGED ticks
         ELSE /\ ticks' = Append(ticks, [entries |-> GetSyncEntries(BeginTransaction(Db)),
                                         idx |-> 1, inRun |-> FALSE])
              /\ UNCHANGED runnerPc
    /\ UNCHANGED <<store, apps, head, now, fails, last, loop>>
    /\ UNCHANGED repoVars
    /\ UNCHANGED buildVars
    /\ UNCHANGED devVars

\* The loop of runSyncJobs comes to an entry: it skips it or calls runSyncJob
RunStart ==
    /\ \E i \in DOMAIN ticks :
         /\ ticks[i].idx \in 1..Len(ticks[i].entries)
         /\ ~ticks[i].inRun
         /\ ticks' = IF ShouldRun(ticks[i].entries[ticks[i].idx])
                     THEN [ticks EXCEPT ![i].inRun = TRUE]
                     ELSE [ticks EXCEPT ![i].idx = @ + 1]
    /\ UNCHANGED <<store, apps, head, now, runnerPc, fails, last, loop, ticker>>
    /\ UNCHANGED repoVars
    /\ UNCHANGED buildVars
    /\ UNCHANGED devVars

\* The call of runSyncJob returns; the loop goes on to the next entry
RunEnd ==
    /\ \E i \in DOMAIN ticks :
         /\ ticks[i].inRun
         /\ \E o \in RunEntries(Db, <<ticks[i].entries[ticks[i].idx]>>) :
              /\ store' = o.db.sync
              /\ apps' = o.db.apps
              /\ fails' = CountRuns(fails, o.steps, TRUE)
         /\ ticks' = [ticks EXCEPT ![i].idx = @ + 1, ![i].inRun = FALSE]
    /\ UNCHANGED <<head, now, runnerPc, last, loop, ticker>>
    /\ UNCHANGED repoVars
    /\ UNCHANGED buildVars
    /\ UNCHANGED devVars

\* runSyncJobs returns nil
TickEnd ==
    /\ \E i \in DOMAIN ticks :
         /\ ticks[i].idx = Len(ticks[i].entries) + 1
         /\ ticks' = [j \in 1..(Len(ticks) - 1) |-> IF j < i THEN ticks[j] ELSE ticks[j + 1]]
    /\ UNCHANGED <<store, apps, head, now, runnerPc, fails, last, loop, ticker>>
    /\ UNCHANGED repoVars
    /\ UNCHANGED buildVars
    /\ UNCHANGED devVars

\* Two scheduled entries written earlier; the timer has not fired yet
InitSched ==
    /\ \E s1 \in {ZeroStatus}, s2 \in InitStatuses :
        store = [i \in Ids |->
                   [NewSyncEntry(i, TRUE, [Reload |-> "none", ScheduleFrequency |-> 0,
                                           WebhookSecret |-> ""])
                    EXCEPT !.Status = IF i = 1 THEN s1 ELSE s2]]
    /\ apps = {}
    /\ head = "c1"
    /\ now = 0
    /\ runnerPc = "running"
    /\ fails = [i \in Ids |-> 0]
    /\ last = NoCall
    /\ loop = NoLoop
    /\ RepoIdle
    /\ OthersIdle

NextSched ==
    \/ TimerFire
    \/ TickStart
    \/ RunStart
    \/ RunEnd
    \/ TickEnd

SpecSched == InitSched /\ [][NextSched]_vars

\* =============================================================== the build lock
\* acquireBuildLock and BuildImage: the channel is made by the first call, with
\* the capacity MaxConcurrentBuilds; a caller waits in the select until it can
\* send its build id, its timer fires or its context is done; the release
\* function receives one id from the channel.
MaxConcurrentBuilds == 2

\* make(chan string, config.MaxConcurrentBuilds)
MakeChannel(cap) == [nil |-> FALSE, cap |-> cap, buf |-> <<>>]

\* Mutant of CanSend: the channel takes one id more than its capacity
CanSendOneMore(ch) == Len(ch.buf) <= ch.cap

\* Whether a send to the channel can proceed
CanSend(ch) == Len(ch.buf) < ch.cap

\* BuildImage calls acquireBuildLock: the channel is made if it is nil (under
\* mu), the timer is started and the caller comes to the select
BuildCall ==
    /\ \E p \in BuildProcs :
         /\ builds[p].pc = "idle"
         /\ buildLockChannel' = IF buildLockChannel.nil THEN MakeChannel(MaxConcurrentBuilds)
                                ELSE buildLockChannel
         /\ builds' = [builds EXCEPT ![p].pc = "select"]
    /\ UNCHANGED syncVars
    /\ UNCHANGED repoVars
    /\ UNCHANGED schedVars
    /\ UNCHANGED devVars

\* MaxBuildWaitSecs have elapsed: the timer of the caller fires
BuildTimer ==
    /\ \E p \in BuildProcs :
         /\ builds[p].pc = "select"
         /\ ~builds[p].timer
         /\ builds' = [builds EXCEPT ![p].timer = TRUE]
         /\ UNCHANGED buildLockChannel
    /\ UNCHANGED syncVars
    /\ UNCHANGED repoVars
    /\ UNCHANGED schedVars
    /\ UNCHANGED devVars

\* The context of the caller is done
BuildCtxDone ==
    /\ \E p \in BuildProcs :
         /\ builds[p].pc = "select"
         /\ ~builds[p].done
         /\ builds' = [builds EXCEPT ![p].done = TRUE]
         /\ UNCHANGED buildLockChannel
    /\ UNCHANGED syncVars
    /\ UNCHANGED repoVars
    /\ UNCHANGED schedVars
    /\ UNCHANGED devVars

\* case buildLockChannel <- buildId: the caller holds the lock
BuildAcquire ==
    /\ \E p \in BuildProcs :
         /\ builds[p].pc = "select"
         /\ CanSend(buildLockChannel)
         /\ buildLockChannel' = [buildLockChannel EXCEPT !.buf = Append(@, p)]
         /\ builds' = [builds EXCEPT ![p].pc = "holding"]
    /\ UNCHANGED syncVars
    /\ UNCHANGED repoVars
    /\ UNCHANGED schedVars
    /\ UNCHANGED devVars

\* case <-ctx.Done() and case <-timer.C: the caller gets an error
BuildFail ==
    /\ \E p \in BuildProcs :
         /\ builds[p].pc = "select"
         /\ builds[p].timer \/ builds[p].done
         /\ builds' = [builds EXCEPT ![p].pc = "failed"]
         /\ UNCHANGED buildLockChannel
    /\ UNCHANGED syncVars
    /\ UNCHANGED repoVars
    /\ UNCHANGED schedVars
    /\ UNCHANGED devVars

\* The deferred releaseLock of BuildImage: one id is received from the channel
BuildRelease ==
    /\ \E p \in BuildProcs :
         /\ builds[p].pc = "holding"
         /\ buildLockChannel' = [buildLockChannel EXCEPT !.buf = Tail(@)]
         /\ builds' = [builds EXCEPT ![p].pc = "released"]
    /\ UNCHANGED syncVars
    /\ UNCHANGED repoVars
    /\ UNCHANGED schedVars
    /\ UNCHANGED devVars

\* BuildImage returns
BuildReturn ==
    /\ \E p \in BuildProcs :
         /\ builds[p].pc \in {"failed", "released"}
         /\ builds' = [builds EXCEPT ![p] = NoBuild]
         /\ UNCHANGED buildLockChannel
    /\ UNCHANGED syncVars
    /\ UNCHANGED repoVars
    /\ UNCHANGED schedVars
    /\ UNCHANGED devVars

InitBuild ==
    /\ SyncIdle
    /\ RepoIdle
    /\ OthersIdle

NextBuild ==
    \/ BuildCall
    \/ BuildTimer
    \/ BuildCtxDone
    \/ BuildAcquire
    \/ BuildFail
    \/ BuildRelease
    \/ BuildReturn

SpecBuild == InitBuild /\ [][NextBuild]_vars

\* ===================================================== concurrent dev checkouts
\* Two dev-mode CheckoutRepo calls for the same repository name, in different
\* cache instances: each probes for a free name (getUnusedRepoPath), then makes
\* the directory (os.MkdirAll, which succeeds when the directory exists), then
\* clones into it. The steps of the two calls interleave.
DevRepoName == <<"u">>

\* The directories of earlier checkouts that may exist
DevDirs ==
    {Join(AppSrc, DevRepoName), Join(AppSrc, Sprintf(DevRepoName, 2)),
     Join(AppSrc, Sprintf(DevRepoName, 3))}

DevProbe ==
    /\ \E p \in DevProcs :
         /\ devs[p].pc = "idle"
         /\ devs' = [devs EXCEPT ![p] = [pc |-> "probed",
                        targetPath |-> getUnusedRepoPath(disk, AppSrc, DevRepoName)]]
         /\ UNCHANGED disk
    /\ UNCHANGED <<cache, shaCache, rootDir, remote, calls, ret>>
    /\ UNCHANGED syncVars
    /\ UNCHANGED schedVars
    /\ UNCHANGED buildVars

DevMkdirAll ==
    /\ \E p \in DevProcs :
         /\ devs[p].pc = "probed"
         /\ disk' = disk \cup {devs[p].targetPath}
         /\ devs' = [devs EXCEPT ![p].pc = "made"]
    /\ UNCHANGED <<cache, shaCache, rootDir, remote, calls, ret>>
    /\ UNCHANGED syncVars
    /\ UNCHANGED schedVars
    /\ UNCHANGED buildVars

DevClone ==
    /\ \E p \in DevProcs :
         /\ devs[p].pc = "made"
         /\ devs' = [devs EXCEPT ![p].pc = "cloned"]
         /\ UNCHANGED disk
    /\ UNCHANGED <<cache, shaCache, rootDir, remote, calls, ret>>
    /\ UNCHANGED syncVars
    /\ UNCHANGED schedVars
    /\ UNCHANGED buildVars

InitDev ==
    /\ SyncIdle
    /\ cache = <<>>
    /\ shaCache = <<>>
    /\ rootDir = ""
    /\ disk \in SUBSET DevDirs
    /\ remote = <<>>
    /\ calls = <<>>
    /\ ret = <<>>
    /\ OthersIdle

NextDev ==
    \/ DevProbe
    \/ DevMkdirAll
    \/ DevClone

SpecDev == InitDev /\ [][NextDev]_vars


\* ====================================================================== claims
Steps == {last.steps[k] : k \in 1..Len(last.steps)}

\* The runs of the observed call: the calls of runSyncJob it made
Runs == {s \in Steps : s.ran}

\* The Apply whose outcome the run's status is built from failed
ApplyFailed(s) == s.applies # <<>> /\ s.applies[Len(s.applies)].err

ApplySucceeded(s) == s.applies # <<>> /\ ~s.applies[Len(s.applies)].err

\* C1: when a run ends with an error status, that status (error text, incremented
\* FailureCount, State, LastExecutionTime) is what the store holds for the entry
\* after the call has returned.
C1_FailureStatusPersisted ==
    \A s \in Runs :
        (s.hasStatus /\ s.status.Error # "" /\ s.entry.Id \in DOMAIN store)
            => store[s.entry.Id].Status = s.status

\* C2: each run whose Apply fails takes the persisted FailureCount n of the entry
\* to n + 1, capped at MaxSyncFailureCount, with State "Disabled" once the count
\* reaches MaxSyncFailureCount and "Failing" below it; so N such runs in a row
\* from FailureCount 0 leave FailureCount = N (capped).
C2_FailureCountMonotone ==
    \A s \in Runs :
        (ApplyFailed(s) /\ s.hasStatus /\ s.entry.Id \in DOMAIN store)
            => LET n == s.entry.Status.FailureCount + 1
                   st == store[s.entry.Id].Status
               IN  /\ st.FailureCount = Min(n, MaxSyncFailureCount)
                   /\ st.State = IF n >= MaxSyncFailureCount THEN "Disabled" ELSE "Failing"

\* C3: a run whose Apply succeeds and in which no reload fails writes a Status
\* with FailureCount 0, State "Enabled" and an empty Error, whatever the status of
\* the entry was before; when the call commits, that is the status in the store.
C3_ResetOnSuccess ==
    \A s \in Runs :
        (ApplySucceeded(s) /\ ~s.reloadErr /\ s.hasStatus)
            => /\ s.wrote
               /\ s.status.FailureCount = 0
               /\ s.status.State = "Enabled"
               /\ s.status.Error = ""
               /\ (last.err = "" /\ ~last.dryRun)
                     => (s.entry.Id \in DOMAIN store /\ store[s.entry.Id].Status = s.status)

C3_Witness ==
    \E s \in Runs :
        /\ s.entry.Status.State = "Disabled"
        /\ s.entry.Status.FailureCount >= MaxSyncFailureCount
        /\ ApplySucceeded(s) /\ ~s.reloadErr /\ s.hasStatus
        /\ s.entry.Id \in DOMAIN store
        /\ store[s.entry.Id].Status.FailureCount = 0

\* C4: a tick does not run an entry whose FailureCount has reached
\* MaxSyncFailureCount, whatever its State and its last execution time; and so
\* the scheduler loop never makes more than MaxSyncFailureCount failing runs of
\* an entry in a row.
C4_CircuitBreaker ==
    /\ last.op = "tick" =>
         \A s \in Steps : s.entry.Status.FailureCount >= MaxSyncFailureCount => ~s.ran
    /\ \A id \in Ids : fails[id] <= MaxSyncFailureCount

\* C5: a tick does not run an entry that is not scheduled, or whose frequency is
\* not positive, or whose non-zero LastExecutionTime plus frequency is later than
\* now; it runs a scheduled entry of positive frequency with FailureCount below the
\* maximum that was never executed or whose frequency has elapsed.
C5_TimeGate ==
    last.op = "tick" =>
      \A s \in Steps :
        LET e == s.entry
            due == e.Status.LastExecutionTime = 0
                   \/ e.Status.LastExecutionTime + e.Metadata.ScheduleFrequency <= now
        IN  /\ (~e.IsScheduled \/ e.Metadata.ScheduleFrequency <= 0 \/ ~due) => ~s.ran
            /\ (/\ e.IsScheduled
                /\ e.Metadata.ScheduleFrequency > 0
                /\ e.Status.FailureCount < MaxSyncFailureCount
                /\ due) => s.ran

C5_Witness ==
    /\ last.op = "tick"
    /\ \E s \in Steps :
        /\ s.entry.IsScheduled
        /\ s.entry.Status.FailureCount = 0
        /\ s.entry.Status.LastExecutionTime > 0
        /\ s.entry.Status.LastExecutionTime + s.entry.Metadata.ScheduleFrequency = now
        /\ s.ran

\* C6: RunSync on an existing entry executes one run, whose Apply is called with
\* the commit id of the last run (checkCommitHash = true), whatever the State and
\* the FailureCount of the entry; the scheduler loop does not run an entry with
\* FailureCount >= MaxSyncFailureCount. (A RunSync that cannot begin its
\* transaction ends before it loads the entry, and a run that cannot create its
\* repo cache ends before Apply.)
C6_ManualRunNotGated ==
    /\ (last.op = "RunSync" /\ last.id \in DOMAIN store /\ last.err # "begin error")
         => /\ Len(last.steps) = 1
            /\ \A s \in Steps :
                 /\ s.ran
                 /\ s.entry = [store[last.id] EXCEPT !.Status = s.entry.Status]
                 /\ s.err # "cache error"
                      => /\ s.applies # <<>>
                         /\ s.applies[1].checkCommitHash
                         /\ s.applies[1].lastRunCommitId = s.entry.Status.CommitId
    /\ last.op = "tick"
         => \A s \in Steps :
              (s.entry.Status.State = "Disabled"
               /\ s.entry.Status.FailureCount >= MaxSyncFailureCount) => ~s.ran

C6_Witness ==
    /\ last.op = "RunSync"
    /\ \E s \in Runs :
        /\ s.entry.Status.State = "Disabled"
        /\ s.entry.Status.FailureCount >= MaxSyncFailureCount
        /\ s.applies # <<>>
        /\ s.applies[1].checkCommitHash

\* C7: if the initial run of CreateSyncEntry reports an error, CreateSyncEntry
\* returns an error and the store holds no entry with the generated id.
C7_CreateAllOrNothing ==
    last.op = "CreateSyncEntry" =>
      \A s \in Runs :
        (s.err # "" \/ s.status.Error # "")
            => (last.err # "" /\ last.id \notin DOMAIN store)

C7_Witness ==
    /\ last.op = "CreateSyncEntry"
    /\ \E s \in Runs : s.hasStatus /\ s.status.Error # "" /\ s.applies # <<>>
    /\ last.err # ""
    /\ last.id \notin DOMAIN store

\* C8: in a run with reload policy matched whose Apply reported SkippedApply, if
\* an application of the last run does not exist, no ReloadApp is called, Apply is
\* called a second time with an empty last-run commit id (checkCommitHash = false),
\* and the call returns the status and the updated applications of that second run.
C8_MissingAppRecovery ==
    \A s \in Runs :
        (/\ s.entry.Metadata.Reload = "matched"
         /\ s.applies # <<>>
         /\ ~s.applies[1].err
         /\ s.applies[1].skipped
         /\ \E a \in Range(s.entry.Status.ApplyResponse.FilteredApps) : a \notin s.apps0)
            => /\ s.reloads = <<>>
               /\ Len(s.applies) = 2
               /\ ~s.applies[2].checkCommitHash
               /\ s.applies[2].lastRunCommitId = ""
               /\ s.hasStatus =>
                    /\ s.status.Error = (IF s.applies[2].err THEN "apply error" ELSE "")
                    /\ s.status.CommitId = s.applies[2].commitId
                    /\ s.updatedApps = s.applies[2].updated
                    /\ s.status.ApplyResponse.SkippedApply = s.applies[2].skipped

C8_Witness ==
    \E s \in Runs :
        /\ s.entry.Metadata.Reload = "matched"
        /\ Len(s.applies) = 2
        /\ s.applies[1].skipped
        /\ \E a \in Range(s.entry.Status.ApplyResponse.FilteredApps) : a \notin s.apps0
        /\ s.hasStatus
        /\ ~s.applies[2].err

\* C9 as stated: calls of CheckoutRepo with identical arguments trigger at most
\* one clone, so a call does not clone when the last call that cloned had the
\* same arguments.
C9_AtMostOneClone ==
    (ret.op = "CheckoutRepo" /\ ret.cloned) => ret.prevClone # ret.args

\* C9: once a CheckoutRepo call has succeeded, every later call on the instance
\* with the same source URL, branch, commit and auth profile succeeds without
\* making a directory, cloning or checking out, and returns the (dir, subPath,
\* message, hash) that call returned; so at most one clone per key succeeds.
C9_CheckoutCached ==
    (ret.op = "CheckoutRepo" /\ ret.first # <<>>) =>
        /\ ret.err = ""
        /\ ~ret.mkdir /\ ~ret.cloned /\ ~ret.checkedOut
        /\ ret.val = ret.first

\* A later call for the branch head returns the hash of the first call after the
\* head of the remote branch has moved
C9_Witness ==
    /\ ret.op = "CheckoutRepo"
    /\ ret.first # <<>>
    /\ ret.args.commit = ""
    /\ ret.val = ret.first
    /\ ret.val[4] # remote[ret.args.branch]

\* C10: a GetSha call leaves the directories and the checkout cache as they are;
\* per key (url, branch, auth) at most one remote listing gives the hash of the
\* branch: once a call has cached a hash for the key, every later call returns
\* that hash without a remote call.
C10_GetShaCached ==
    /\ [](/\ (ret.op = "GetSha" /\ ret.first # <<>>) =>
                 (ret.err = "" /\ ~ret.remoteCall /\ ret.val = ret.first)
          /\ \A key \in DOMAIN calls.resolved : calls.resolved[key].count <= 1)
    /\ [][ret'.op = "GetSha" =>
            (disk' = disk /\ cache' = cache /\ calls'.dirs = calls.dirs)]_vars

\* A later call returns the cached hash after the head of the remote branch has
\* moved
C10_Witness ==
    /\ ret.op = "GetSha"
    /\ ret.first # <<>>
    /\ ret.val = ret.first
    /\ ret.val[1] # remote[ret.args.branch]

\* C11: in a tick the loop handles the entries of the loaded list one by one in
\* list order; it runs an entry exactly when the entry passes the eligibility
\* checks (scheduled, positive frequency, never executed or frequency elapsed,
\* FailureCount below the maximum), also after the run of an earlier entry
\* failed; a failed run does not end the loop or stop the scheduler.
C11_LoopIsolation ==
    /\ loop.idx > 0 => (runnerPc = "running" /\ Len(loop.steps) = loop.idx - 1)
    /\ \A k \in 1..Len(loop.steps) :
         LET e == loop.entries[k]
         IN  /\ loop.steps[k].id = e.Id
             /\ loop.steps[k].ran <=>
                  /\ e.IsScheduled
                  /\ e.Metadata.ScheduleFrequency > 0
                  /\ \/ e.Status.LastExecutionTime = 0
                     \/ e.Status.LastExecutionTime + e.Metadata.ScheduleFrequency <= now
                  /\ e.Status.FailureCount < MaxSyncFailureCount

\* The run of the first entry failed and the second entry was run
C11_Witness ==
    /\ Len(loop.steps) = 2
    /\ loop.steps[1].ran /\ loop.steps[1].failed
    /\ loop.steps[2].ran

\* C12: a tick in which loading the entry list fails runs no entry and stops the
\* scheduler loop; once the loop has stopped it stays stopped and no later step
\* is a tick.
C12_FailFast ==
    /\ []((last.op = "tick" /\ last.err = "list")
             => (last.steps = <<>> /\ runnerPc = "stopped"))
    /\ [][runnerPc = "stopped"
             => (runnerPc' = "stopped" /\ (last' # last => last'.op # "tick"))]_vars

\* The list failed to load in a tick that had an entry to run
C12_Witness ==
    /\ last.op = "tick"
    /\ last.err = "list"
    /\ \E id \in DOMAIN store :
         /\ store[id].IsScheduled
         /\ store[id].Status.LastExecutionTime = 0
         /\ store[id].Status.FailureCount = 0

\* The run's status is in the store when the call has returned: the run
\* succeeded and the call committed
Persisted(s) ==
    s.hasStatus /\ s.status.Error = "" /\ last.err = "" /\ ~last.dryRun

C14_RunSyncIdempotent ==
    last.op = "RunSync" =>
      \A s \in Runs :
        /\ (Persisted(s) /\ s.entry.Id \in DOMAIN store)
              => store[s.entry.Id].Status.CommitId = s.applies[Len(s.applies)].commitId
        /\ (s.applies # <<>> /\ s.entry.Status.Error = "" /\ s.entry.Status.CommitId = head)
              => /\ s.applies[1].lastRunCommitId = s.entry.Status.CommitId
                 /\ (~s.applies[1].err => s.applies[1].skipped)
                 /\ (~s.applies[1].err /\ ~s.reloadErr /\ Len(s.applies) = 1 /\ s.err = "")
                       => /\ s.status.ApplyResponse.SkippedApply
                          /\ s.status.Error = ""
                          /\ s.status.FailureCount = 0
                          /\ (last.err = "" \/ last.err = "complete error")

\* The second of two RunSync calls: the entry has the commit id and the execution
\* time that a run after the push recorded, and the call skipped Apply
C14_Witness ==
    /\ last.op = "RunSync"
    /\ last.err = ""
    /\ \E s \in Runs :
         /\ s.entry.Status.CommitId = "c2"
         /\ head = "c2"
         /\ s.status.ApplyResponse.SkippedApply
         /\ s.status.FailureCount = 0

\* C15: no run is executed for an entry whose deletion has been committed: every
\* run that reaches Apply, by the loop of the scheduler or by RunSync, is the
\* run of an entry that is in the store.
C15_DeletionTerminal ==
    \A s \in Runs : s.applies # <<>> => s.entry.Id \in DOMAIN store

\* C16: the first Cleanup of an instance deletes the private root and every
\* directory under it; a later Cleanup leaves every directory as it is; no
\* Cleanup deletes a directory of the dev checkouts.
C16_CleanupIdempotent ==
    [][ret'.op = "Cleanup" =>
         /\ rootDir # "" =>
              /\ rootDir' = ""
              /\ \A p \in disk : (p = RootPath(rootDir) \/ p.parent = rootDir) => p \notin disk'
         /\ rootDir = "" => (rootDir' = "" /\ disk' = disk)
         /\ \A p \in disk : p.parent = AppSrc => p \in disk']_vars

\* A Cleanup after the first one, with a dev checkout on disk
C16_Witness ==
    /\ ret.op = "Cleanup"
    /\ ret.val = <<"">>
    /\ \E p \in disk : p.parent = AppSrc

\* C17: every directory CheckoutRepo made for a non-dev checkout that exists is
\* under the private root of the instance, and none exists once Cleanup has been
\* called.
C17_TempOwnership ==
    \A p \in disk : p.name[1] = "repo_" => (rootDir # "" /\ p.parent = rootDir)

\* C18: getUnusedRepoPath returns targetDir/repoName when that path does not
\* exist, and otherwise targetDir/repoName<n> for the smallest n >= 2 for which
\* the path does not exist; the path it returns does not exist.
C18_FirstFit ==
    ret.op = "getUnusedRepoPath" =>
        LET targetDir == ret.args[1]
            repoName == ret.args[2]
            path == ret.val[1]
            numbered(n) == [parent |-> targetDir, name |-> repoName \o Itoa(n)]
        IN  /\ path \notin disk
            /\ [parent |-> targetDir, name |-> repoName] \notin disk
                 => path = [parent |-> targetDir, name |-> repoName]
            /\ [parent |-> targetDir, name |-> repoName] \in disk
                 => \E n \in 2..(Cardinality(disk) + 2) :
                       /\ path = numbered(n)
                       /\ \A m \in 2..(n - 1) : numbered(m) \in disk

\* The name and all numbered names up to 9 exist: the path has the number 10
C18_Witness ==
    /\ ret.op = "getUnusedRepoPath"
    /\ ret.val[1].name = <<"u", "1", "0">>
    /\ [parent |-> AppSrc, name |-> <<"u", "1">>] \notin disk

\* C19: a DeleteSyncEntry call that returns no error returns the id and the
\* dryRun flag it was called with; with dryRun = true it leaves the store as it
\* was (the entry is still there), with dryRun = false the entry is gone from
\* the store and nothing else has changed.
C19_DeleteDryRun ==
    /\ []((last.op = "DeleteSyncEntry" /\ last.err = "")
            => /\ last.resp = [Id |-> last.id, DryRun |-> last.dryRun]
               /\ ~last.dryRun => last.id \notin DOMAIN store)
    /\ [][(last'.op = "DeleteSyncEntry" /\ last' # last)
            => /\ apps' = apps
               /\ (last'.dryRun \/ last'.err # "") => store' = store
               /\ (~last'.dryRun /\ last'.err = "")
                    => store' = [i \in DOMAIN store \ {last'.id} |-> store[i]]]_vars

\* A dry run for an entry that exists
C19_Witness ==
    /\ last.op = "DeleteSyncEntry"
    /\ last.err = ""
    /\ last.dryRun
    /\ last.resp.DryRun
    /\ last.id \in DOMAIN store

\* C20: no step changes the Path, the IsScheduled flag or the Metadata of an
\* entry that is in the store: an entry that is in the store before and after a
\* step (a tick, a RunSync call, the initial run of CreateSyncEntry) differs at
\* most in its Status.
C20_OnlyStatus ==
    [][\A id \in DOMAIN store \cap DOMAIN store' :
          /\ store'[id].Id = store[id].Id
          /\ store'[id].Path = store[id].Path
          /\ store'[id].IsScheduled = store[id].IsScheduled
          /\ store'[id].Metadata = store[id].Metadata]_vars

\* A run has changed the Status of an entry
C20_Witness ==
    /\ last.op \in {"tick", "RunSync"}
    /\ \E s \in Runs :
         /\ Persisted(s)
         /\ s.entry.Id \in DOMAIN store
         /\ store[s.entry.Id].Status # s.entry.Status
         /\ store[s.entry.Id].Metadata = s.entry.Metadata

\* C21: the entry CreateSyncEntry builds has a generated secret (a prefixed
\* token) exactly when it is not scheduled, and the default frequency in place of
\* the given one exactly when it is scheduled and the given frequency is not
\* positive; so a scheduled entry that was created has the positive frequency
\* given or the default, and the secret it was given.
C21_CreateDefaults ==
    (last.op = "CreateSyncEntry" /\ last.steps # <<>>) =>
        LET e == last.steps[1].entry
            given == last.args.sync
        IN  /\ e.IsScheduled = last.args.scheduled
            /\ e.Metadata.WebhookSecret =
                  IF ~last.args.scheduled THEN "cl_tkn" ELSE given.WebhookSecret
            /\ e.Metadata.ScheduleFrequency =
                  IF last.args.scheduled /\ given.ScheduleFrequency <= 0
                  THEN DefaultScheduleMins ELSE given.ScheduleFrequency
            /\ e.IsScheduled => e.Metadata.ScheduleFrequency > 0
            /\ (last.err = "" /\ ~last.dryRun)
                  => /\ e.Id \in DOMAIN store
                     /\ store[e.Id].Metadata = e.Metadata
                     /\ store[e.Id].IsScheduled = e.IsScheduled

\* A scheduled entry was created with the positive frequency it was given
C21_Witness ==
    /\ last.op = "CreateSyncEntry"
    /\ last.err = ""
    /\ ~last.dryRun
    /\ last.args.scheduled
    /\ last.args.sync.ScheduleFrequency > DefaultScheduleMins
    /\ last.id \in DOMAIN store
    /\ store[last.id].Metadata.ScheduleFrequency = last.args.sync.ScheduleFrequency
    /\ store[last.id].Metadata.WebhookSecret = ""

\* The committed applications after step i of the call
AppsAfter(i) == IF i < Len(last.steps) THEN last.steps[i + 1].apps0 ELSE apps

\* C22: a run that ends with an error status returns no updated applications and
\* leaves the committed applications as they were; the transaction a caller
\* supplied is rolled back, a run of the scheduler commits nothing.
C22_FailureUndone ==
    \A i \in 1..Len(last.steps) :
        LET s == last.steps[i]
        IN  (s.ran /\ s.hasStatus /\ s.status.Error # "") =>
                /\ s.updatedApps = {}
                /\ ~s.txOpen
                /\ ~s.completed
                /\ AppsAfter(i) = s.apps0

\* A run with a transaction of the caller failed after Apply had created
\* applications in it
C22_Witness ==
    /\ last.op = "RunSync"
    /\ Len(last.steps) = 1
    /\ last.steps[1].hasStatus
    /\ last.steps[1].status.Error # ""
    /\ last.steps[1].txApps # last.steps[1].apps0
    /\ ~last.steps[1].txOpen
    /\ apps = last.steps[1].apps0

\* C23: every run that invoked Apply has written its Status through
\* UpdateSyncStatus when it returns, whether it succeeded or failed.
C23_StatusAlwaysWritten ==
    \A s \in Runs : s.applies # <<>> => s.wrote

\* C24: one external call of runSyncJob invokes Apply at most twice; a second
\* invocation is the one of the inner call of the missing-application fallback:
\* it follows a first invocation made with checkCommitHash that skipped, and is
\* made without checkCommitHash, with an empty lastRunCommitId, so it cannot skip
\* and lead to the fallback again.
C24_RecursionBounded ==
    \A s \in Runs :
        /\ Len(s.applies) <= 2
        /\ s.applies # <<>> => s.applies[1].checkCommitHash
        /\ Len(s.applies) = 2 =>
              /\ ~s.applies[1].err
              /\ s.applies[1].skipped
              /\ \E k \in 1..Len(s.lookups) : ~s.lookups[k].found
              /\ ~s.applies[2].checkCommitHash
              /\ s.applies[2].lastRunCommitId = ""
              /\ ~s.applies[2].skipped

\* A run took the fallback: Apply was invoked twice
C24_Witness ==
    \E s \in Runs :
        /\ Len(s.applies) = 2
        /\ s.hasStatus

\* C25: the ReloadApp calls of a run are a prefix of the applications of the last
\* run, in list order, each once; the prefix is the whole list unless a reload
\* failed, and after a failed reload nothing more is reloaded (every reload before
\* the failed one has its result recorded), and the run's Status has the reload
\* error, FailureCount = previous FailureCount + 1 and the State of that count.
C25_ReloadFailFast ==
    \A s \in Runs :
        LET lastRunApps == s.entry.Status.ApplyResponse.FilteredApps
        IN  /\ Len(s.reloads) <= Len(lastRunApps)
            /\ s.reloads = SubSeq(lastRunApps, 1, Len(s.reloads))
            /\ (s.reloads # <<>> /\ ~s.reloadErr) => s.reloads = lastRunApps
            /\ s.reloadErr => s.reloads # <<>>
            /\ (s.reloadErr /\ s.hasStatus) =>
                  /\ Len(s.reloads) = Len(s.status.ApplyResponse.ReloadResults) + 1
                  /\ s.status.Error = "reload error"
                  /\ s.status.FailureCount = s.entry.Status.FailureCount + 1
                  /\ s.status.State =
                        IF s.entry.Status.FailureCount + 1 >= MaxSyncFailureCount
                        THEN "Disabled" ELSE "Failing"

\* The first reload of a run failed and the second application was not reloaded
C25_Witness ==
    \E s \in Runs :
        /\ s.reloadErr
        /\ s.hasStatus
        /\ Len(s.reloads) = 1
        /\ Len(s.entry.Status.ApplyResponse.FilteredApps) = 2

\* C26: a run looks up application records and calls ReloadApp only if its Apply
\* returned without error and skipped and the reload policy of the entry is
\* matched; after a failed or not skipped Apply, and under the policies none
\* and updated, there is no lookup and no reload.
C26_SkipGating ==
    \A s \in Runs :
        (s.lookups # <<>> \/ s.reloads # <<>>) =>
            /\ s.applies # <<>>
            /\ ~s.applies[1].err
            /\ s.applies[1].skipped
            /\ s.entry.Metadata.Reload = "matched"

\* A run of an entry with the policy matched skipped its Apply, found the
\* applications of the last run and reloaded them
C26_Witness ==
    \E s \in Runs :
        /\ s.applies # <<>>
        /\ s.applies[1].skipped
        /\ s.entry.Metadata.Reload = "matched"
        /\ s.lookups # <<>>
        /\ s.reloads # <<>>

\* C27: a run that succeeds completes its transaction through
\* CompleteTransaction exactly when runSyncJob began the transaction itself (the
\* runs of the scheduler); a transaction the caller supplied (RunSync,
\* CreateSyncEntry) is not completed and is open when the call returns, with the
\* store as it was before the call.
C27_TxOwnership ==
    \A s \in Runs :
        (s.hasStatus /\ s.status.Error = "") =>
            /\ last.op = "tick" => (s.completed /\ ~s.txOpen)
            /\ last.op \in {"RunSync", "CreateSyncEntry"} =>
                  /\ ~s.completed
                  /\ s.txOpen
                  /\ (last.err # "" \/ last.dryRun) => apps = s.apps0

\* A successful run in the caller's transaction created applications in it and
\* left it open; the caller did not commit it
C27_Witness ==
    /\ last.op = "RunSync"
    /\ last.err = "complete error"
    /\ \E s \in Runs :
          /\ s.hasStatus
          /\ s.status.Error = ""
          /\ s.txOpen
          /\ ~s.completed
          /\ s.txApps # s.apps0
          /\ apps = s.apps0

\* C28: each run of a tick has a transaction of its own, which it completes
\* when it succeeds: the status and the applications of a successful run are
\* committed when the run returns. A run that fails changes nothing that is
\* committed, so what the runs before it in the tick committed stays, and no run
\* touches the row of another entry.
C28_TickIsolation ==
    [][(last = NoCall /\ last'.op = "tick" /\ last'.steps # <<>> /\ last'.steps[1].ran) =>
          LET s == last'.steps[1]
              id == s.entry.Id
          IN  /\ ~s.txOpen
              /\ \A j \in DOMAIN store : j # id => (j \in DOMAIN store' /\ store'[j] = store[j])
              /\ (s.hasStatus /\ s.status.Error = "") =>
                    /\ s.completed
                    /\ id \in DOMAIN store => store'[id].Status = s.status
                    /\ apps' = apps \cup s.applies[Len(s.applies)].updated
              /\ ~(s.hasStatus /\ s.status.Error = "") =>
                    /\ store' = store
                    /\ apps' = apps]_vars

\* In one tick the run of the first entry succeeded and committed its status and
\* its applications, then the run of the second entry failed: what the first
\* committed is still there
C28_Witness ==
    /\ last.op = "tick"
    /\ Len(loop.steps) = 2
    /\ loop.steps[1].id = 1 /\ loop.steps[1].ran /\ ~loop.steps[1].failed
    /\ loop.steps[2].id = 2 /\ loop.steps[2].failed
    /\ last.steps[1].entry.Id = 2
    /\ last.steps[1].hasStatus
    /\ last.steps[1].status.Error # ""
    /\ 1 \in DOMAIN store
    /\ store[1].Status.LastExecutionTime = now
    /\ store[1].Status.State = "Enabled"
    /\ apps = {"a1", "a2"}

C30_CacheLifecycle ==
    \A s \in Runs :
        /\ s.suppliedCleanups = 0
        /\ s.cacheCleanups = s.cacheNew
        /\ last.op = "tick" => s.cacheNew = 0
        /\ last.op \in {"RunSync", "CreateSyncEntry"} =>
              /\ s.cacheNew <= 1
              /\ (s.applies # <<>> \/ s.hasStatus) => s.cacheNew = 1
              /\ s.err = "cache error" => s.cacheNew = 0

\* A run that created its cache took the fallback: the cache was handed to the
\* inner call and torn down once
C30_Witness ==
    /\ last.op = "RunSync"
    /\ \E s \in Runs :
          /\ Len(s.applies) = 2
          /\ s.cacheNew = 1
          /\ s.cacheCleanups = 1
          /\ s.suppliedCleanups = 0

\* C31: the Status of a run whose Apply failed has the FilteredApps of the status
\* the entry had before the run, and so has the status the store holds for the
\* entry after the call.
C31_LastAppsPreserved ==
    \A s \in Runs :
        (ApplyFailed(s) /\ s.hasStatus) =>
            /\ s.status.ApplyResponse.FilteredApps = s.entry.Status.ApplyResponse.FilteredApps
            /\ s.status.ApplyResponse.DryRun = last.dryRun
            /\ (Len(last.steps) = 1 /\ s.entry.Id \in DOMAIN store) =>
                  store[s.entry.Id].Status.ApplyResponse.FilteredApps
                      = s.entry.Status.ApplyResponse.FilteredApps

\* The Apply of a run failed for an entry whose last run had applications
C31_Witness ==
    \E s \in Runs :
        /\ ApplyFailed(s)
        /\ s.hasStatus
        /\ s.entry.Status.ApplyResponse.FilteredApps = <<"a1", "a2">>
        /\ s.status.ApplyResponse.FilteredApps = <<"a1", "a2">>
        /\ s.status.Error = "apply error"

\* C34: in the Status of every run, Error is empty iff FailureCount is 0 iff
\* State is "Enabled"; with an error FailureCount is at least 1 and State is
\* "Disabled" iff FailureCount >= MaxSyncFailureCount, else "Failing".
C34_StateAgrees ==
    \A s \in Runs :
        s.hasStatus =>
            LET st == s.status
            IN  /\ st.State \in {"Enabled", "Failing", "Disabled"}
                /\ (st.Error = "") <=> (st.FailureCount = 0)
                /\ (st.FailureCount = 0) <=> (st.State = "Enabled")
                /\ st.Error # "" =>
                      /\ st.FailureCount >= 1
                      /\ (st.State = "Disabled") <=> (st.FailureCount >= MaxSyncFailureCount)
                      /\ (st.State = "Failing") <=> (st.FailureCount < MaxSyncFailureCount)

\* A run whose failure count reached the limit returned the state Disabled, for
\* an entry that was Failing
C34_Witness ==
    \E s \in Runs :
        /\ s.hasStatus
        /\ s.entry.Status.State = "Failing"
        /\ s.status.FailureCount = MaxSyncFailureCount
        /\ s.status.State = "Disabled"
        /\ s.status.Error # ""

\* C36: when the skip-optimization reloaded every application of the last run
\* without error, the ApplyResponse of the run's Status has the results of those
\* reloads.
C36_ReloadResultsReported ==
    \A s \in Runs :
        (s.hasStatus /\ s.reloads # <<>> /\ ~s.reloadErr) =>
            s.status.ApplyResponse.ReloadResults = s.reloads

\* C35: also when calls for the same entry come between the steps of a tick,
\* every failing run persists a FailureCount that is one more than the
\* FailureCount the store held for the entry just before.
C35_NoLostUpdate ==
    [][(last = NoCall /\ last'.op \in {"tick", "RunSync"} /\ Len(last'.steps) = 1) =>
          LET s == last'.steps[1]
              id == s.entry.Id
          IN  (s.ran /\ s.hasStatus /\ s.status.Error # "" /\ id \in DOMAIN store) =>
                  /\ id \in DOMAIN store'
                  /\ store'[id].Status.FailureCount = store[id].Status.FailureCount + 1]_vars

\* The key of shaCache for the arguments of a call
ShaKeyOf(args) ==
    LET gitAuth == Or(args.gitAuth, DefaultGitAuth)
    IN  Repo(parseGitUrl(args.sourceUrl, loadGitKey(gitAuth).usingSSH).repo,
             args.branch, "", gitAuth)

\* C38: when GetSha has returned a hash for (url, branch, auth) on the instance,
\* a CheckoutRepo of the branch head for the same url, branch and auth returns
\* that hash.
C38_TiersAgree ==
    (/\ ret.op = "CheckoutRepo"
     /\ ret.err = ""
     /\ ret.args.commit = ""
     /\ ShaKeyOf(ret.args) \in DOMAIN shaCache)
        => ret.val[4] = shaCache[ShaKeyOf(ret.args)]

\* C39: the directory a successful non-dev CheckoutRepo returns exists when the
\* call returns, whatever CheckoutRepo and Cleanup calls came before.
C39_NoDanglingHit ==
    (ret.op = "CheckoutRepo" /\ ret.err = "" /\ ~ret.args.isDev) => ret.val[1] \in disk

\* C40: a GetSha call that fails leaves shaCache as it is and a CheckoutRepo call
\* that fails leaves the checkout cache as it is; GetSha never changes the
\* checkout cache, CheckoutRepo never changes shaCache; every entry of shaCache
\* is a hash of the repository, every entry of the checkout cache a directory
\* with its hash; a call that succeeds without a remote operation follows an
\* earlier call that succeeded.
C40_ErrorsNotCached ==
    /\ [](/\ \A key \in DOMAIN shaCache : shaCache[key] \in Hashes
          /\ \A key \in DOMAIN cache : cache[key].hash \in Hashes
          /\ (ret.op = "GetSha" /\ ret.err = "" /\ ~ret.remoteCall) => ret.first # <<>>
          /\ (ret.op = "CheckoutRepo" /\ ret.err = "" /\ ~ret.cloned) => ret.first # <<>>)
    /\ [][/\ (ret = NoRet /\ ret'.op = "GetSha") =>
                /\ cache' = cache
                /\ ret'.err # "" => shaCache' = shaCache
          /\ (ret = NoRet /\ ret'.op = "CheckoutRepo") =>
                /\ shaCache' = shaCache
                /\ ret'.err # "" => cache' = cache]_vars

\* A CheckoutRepo call cloned and then failed, and nothing is cached: no checkout,
\* and no hash though a listing failed before
C40_Witness ==
    /\ ret.op = "CheckoutRepo"
    /\ ret.cloned
    /\ ret.err # ""
    /\ cache = <<>>
    /\ shaCache = <<>>
    /\ calls.dirs = 2

\* C32: at most one call of runSyncJobs by the scheduler is in progress and at
\* most one run of it; the entries of a tick are taken one after another; a
\* tick starts only when no tick is in progress, also when the timer has fired
\* while the previous tick was running.
C32_Sequential ==
    /\ [](/\ Len(ticks) <= 1
          /\ Cardinality({i \in DOMAIN ticks : ticks[i].inRun}) <= 1
          /\ ticker \in {0, 1})
    /\ [][/\ Len(ticks') > Len(ticks) => (ticks = <<>> /\ ticker = 1 /\ ticker' = 0)
          /\ (ticks # <<>> /\ ticks' # <<>>) =>
                /\ ticks'[1].entries = ticks[1].entries
                /\ ticks'[1].idx \in {ticks[1].idx, ticks[1].idx + 1}
                /\ (~ticks[1].inRun /\ ticks'[1].inRun) => ticks'[1].idx = ticks[1].idx]_vars

\* The timer fired again while a run of the tick is in progress: the tick waits
\* in the channel
C32_Witness ==
    /\ Len(ticks) = 1
    /\ ticks[1].inRun
    /\ ticks[1].idx = 2
    /\ ticker = 1
    /\ now = MaxTime

\* The callers that hold the build lock
Holders == {p \in BuildProcs : builds[p].pc = "holding"}

\* C33: at most MaxConcurrentBuilds callers hold the build lock, and the channel
\* holds one id per holder; a caller that gets an error leaves the channel as it
\* is and holds nothing; a release takes exactly one id out of the channel.
C33_BoundedBuilds ==
    /\ [](/\ Cardinality(Holders) <= MaxConcurrentBuilds
          /\ Len(buildLockChannel.buf) = Cardinality(Holders)
          /\ ~buildLockChannel.nil => buildLockChannel.cap = MaxConcurrentBuilds
          /\ \A p \in BuildProcs :
                builds[p].pc = "failed" => (builds[p].timer \/ builds[p].done))
    /\ [][\A p \in BuildProcs :
            /\ (builds[p].pc = "select" /\ builds'[p].pc = "failed") =>
                  buildLockChannel' = buildLockChannel
            /\ (builds[p].pc = "holding" /\ builds'[p].pc # "holding") =>
                  Len(buildLockChannel'.buf) = Len(buildLockChannel.buf) - 1
            /\ (builds[p].pc # "holding" /\ builds'[p].pc = "holding") =>
                  /\ Len(buildLockChannel.buf) < MaxConcurrentBuilds
                  /\ Len(buildLockChannel'.buf) = Len(buildLockChannel.buf) + 1]_vars

\* Every slot is taken and a caller whose timer fired got the error
C33_Witness ==
    /\ Cardinality(Holders) = MaxConcurrentBuilds
    /\ \E p \in BuildProcs :
          builds[p].pc = "failed" /\ builds[p].timer /\ ~builds[p].done

\* C37: two concurrent dev-mode checkouts of the same repository name never have
\* the same target directory.
C37_DistinctDevDirs ==
    \A p, q \in DevProcs :
        (p # q /\ devs[p].pc # "idle" /\ devs[q].pc # "idle") =>
            devs[p].targetPath # devs[q].targetPath

====
